---- MODULE Spec2Model ----
(***************************************************************************)
(* Time-series regularisation and resampling engine of                     *)
(* _tools/fun_s.py (pandas backend, "pd") and _tools/fun_s_pl.py (polars   *)
(* backend, "pl"): the validators, ts_step, na_ts_insert, hourly_2_daily   *)
(* and ts_info.                                                            *)
(*                                                                         *)
(* A timestamp is an integer number of ticks; one second is TicksPerSecond *)
(* ticks, so a table can carry timestamps that are not whole seconds, as   *)
(* a Datetime column / DatetimeIndex can.  A cell is a record: null,       *)
(* nan, or a value x/d.                                                    *)
(***************************************************************************)
EXTENDS Integers, Sequences, FiniteSets

\* one call: the backend, the caller's table, the operation, its arguments and
\* what it returned.  pool: the calls of concurrent workers.  driver: a run of
\* the batch script.
VARIABLES backend, ts, op, arg, ret, pool, driver

vars == <<backend, ts, op, arg, ret, pool, driver>>

(***************************************************************************)
(* Bounds of the model                                                     *)
(***************************************************************************)
MaxRows == 3
MaxSlots == 4
MaxHourly == 3
NumWorkers == 2
MaxFolders == 2
TicksPerSecond == 2

(***************************************************************************)
(* Program constants                                                       *)
(***************************************************************************)
DefaultMinStep == 60
SecondsPerHour == 3600
SecondsPerDay == 86400
HoursPerDay == 24
MaxDayStart == 23

(***************************************************************************)
(* Cells                                                                   *)
(***************************************************************************)
Null == [k |-> "null", x |-> 0, d |-> 1]
NaN == [k |-> "nan", x |-> 0, d |-> 1]
Val(n) == [k |-> "val", x |-> n, d |-> 1]
Frac(n, m) == [k |-> "val", x |-> n, d |-> m]

\* polars is_null(): only null is null, NaN is a float value
is_null(c) == c.k = "null"
\* pandas isna(): NaN (and None, stored as NaN in a float column) is missing
isna(c) == c.k # "val"
\* polars fill_nan(None) on one cell
fill_nan(c) == IF c.k = "nan" THEN Null ELSE c

(***************************************************************************)
(* Sequence helpers                                                        *)
(***************************************************************************)
Range(s) == {s[i] : i \in DOMAIN s}

\* the elements of s at the indices kept, in the order of s
SelectIdx(s, kept) ==
  LET K == kept \cap DOMAIN s
  IN [k \in 1..Cardinality(K) |->
        s[CHOOSE i \in K : Cardinality({j \in K : j <= i}) = k]]

Min(S) == CHOOSE a \in S : \A b \in S : a <= b
Max(S) == CHOOSE a \in S : \A b \in S : a >= b

\* the rows of rows ordered by timestamp (a stable sort; used on unique keys)
SortByT(rows) ==
  LET n == Len(rows)
      Rank(i) == Cardinality({j \in 1..n : rows[j].t < rows[i].t
                                            \/ (rows[j].t = rows[i].t /\ j < i)})
  IN [p \in 1..n |-> rows[CHOOSE i \in 1..n : Rank(i) = p - 1]]

Times(rows) == [i \in DOMAIN rows |-> rows[i].t]
IsUnique(rows) == \A i, j \in DOMAIN rows : rows[i].t = rows[j].t => i = j
IsSorted(rows) == \A i \in DOMAIN rows : i > 1 => rows[i - 1].t <= rows[i].t

(***************************************************************************)
(* Tables.  shape: "frame" (a DataFrame of the backend), "series" (a       *)
(* pandas Series) or "other"; ntemporal: the number of temporal key        *)
(* columns (polars) / 1 iff the index holds date-times (pandas); isdate:   *)
(* the key is a calendar date (pl.Date / datetime.date); dtypes: the       *)
(* dtype of every other column; rows: timestamp and cells, in table order. *)
(***************************************************************************)
Table(shape, ntemporal, isdate, dtypes, rows) ==
  [shape |-> shape, ntemporal |-> ntemporal, isdate |-> isdate,
   dtypes |-> dtypes, rows |-> rows]

Width(t) == t.ntemporal + Len(t.dtypes)
NumericWidth(t) == Cardinality({j \in DOMAIN t.dtypes : t.dtypes[j] = "num"})

(***************************************************************************)
(* Outcomes of a call                                                      *)
(***************************************************************************)
NoStep == [none |-> TRUE, n |-> 0]
Step(n) == [none |-> FALSE, n |-> n]
Irregular == Step(-1)

Blank ==
  [exc |-> "", msg |-> "", step |-> NoStep, rows |-> <<>>, isdate |-> FALSE,
   label |-> "", site |-> 0, info |-> <<>>, schema |-> <<>>, text |-> <<>>]
Raise(exc, msg) == [Blank EXCEPT !.exc = exc, !.msg = msg]
ReturnStep(s) == [Blank EXCEPT !.step = s]
ReturnRows(rows, isdate) == [Blank EXCEPT !.rows = rows, !.isdate = isdate]
ReturnMsg(msg) == [Blank EXCEPT !.msg = msg]
ReturnNone == Blank

(***************************************************************************)
(* Validators                                                              *)
(***************************************************************************)
\* ts_valid_pd without its check of duplicates
ts_valid_pd_NoUniqueCheck(t) ==
  IF t.shape \notin {"series", "frame"}
    THEN "ts must be either pandas.Series or pandas.DataFrame!"
  ELSE IF t.ntemporal # 1 /\ t.rows # <<>>
    THEN "Wrong dtype in the index"
  ELSE IF ~IsSorted(t.rows)
    THEN "ts.index must be in chronicle order!"
  ELSE IF Len(t.dtypes) < 1
    THEN "No column exists in the DataFrame ts!"
  ELSE IF NumericWidth(t) # Len(t.dtypes)
    THEN "All columns in ts must be numeric!"
  ELSE ""

\* ntemporal = 1: the index holds dates or datetimes; an index of another
\* dtype passes the check of its entries when it has no entry
ts_valid_pd(t) ==
  IF t.shape \notin {"series", "frame"}
    THEN "ts must be either pandas.Series or pandas.DataFrame!"
  ELSE IF t.ntemporal # 1 /\ t.rows # <<>>
    THEN "Wrong dtype in the index"
  ELSE IF ~IsUnique(t.rows)
    THEN "ts.index must be unique!"
  ELSE IF ~IsSorted(t.rows)
    THEN "ts.index must be in chronicle order!"
  ELSE IF t.shape = "frame"
    THEN IF Len(t.dtypes) < 1
           THEN "No column exists in the DataFrame ts!"
         ELSE IF NumericWidth(t) # Len(t.dtypes)
           THEN "All columns in ts must be numeric!"
         ELSE ""
  ELSE IF NumericWidth(t) # Len(t.dtypes)
    THEN "The Series must contain real numbers!"
  ELSE ""

ts_valid_pl(t) ==
  IF t.shape = "frame"
    THEN IF Width(t) < 2
           THEN "ts must have one datetime column and the rest of numeric column(s)!"
         ELSE IF t.ntemporal # 1
           THEN "ts must have one datetime column!"
         ELSE IF ~IsUnique(t.rows)
           THEN "The values in the temporal column must be unique!"
         ELSE IF SortByT(t.rows) # t.rows
           THEN "Column must be sorted in chronicle order!"
         ELSE IF Width(t) # NumericWidth(t) + 1
           THEN "Apart from the temporal column, the rest column(s) must be numeric!"
         ELSE ""
  ELSE "ts must be a polars.DataFrame!"

ts_valid(b, t) == IF b = "pd" THEN ts_valid_pd(t) ELSE ts_valid_pl(t)

(***************************************************************************)
(* ts_step                                                                 *)
(***************************************************************************)
\* consecutive timestamp differences, in ticks, in encounter order
DiffTicks(rows) == [i \in 1..(Len(rows) - 1) |-> rows[i + 1].t - rows[i].t]

\* polars Duration.dt.total_seconds(): whole seconds, the fraction is cut off
total_seconds(ticks) == ticks \div TicksPerSecond

\* FillNanRow that leaves the NaN in place
FillNanRow_NaNKept(r) == r

\* polars: ts.fill_nan(None).filter(~all_horizontal(col(col_v).is_null()))
FillNanRow(r) == [t |-> r.t, v |-> [j \in DOMAIN r.v |-> fill_nan(r.v[j])]]
AllNullRow(r) == \A j \in DOMAIN r.v : is_null(r.v[j])
\* DropEmpty_pl without the filter: NaN becomes null, every row stays
DropEmpty_pl_KeepsAll(rows) == [i \in DOMAIN rows |-> FillNanRow(rows[i])]

DropEmpty_pl(rows) ==
  LET filled == [i \in DOMAIN rows |-> FillNanRow(rows[i])]
      Keep(r) == ~AllNullRow(r)
  IN SelectIdx(filled, {ix \in DOMAIN filled : Keep(filled[ix])})

\* pandas: ts.dropna(axis=0, how='all')
AllNaRow(r) == \A j \in DOMAIN r.v : isna(r.v[j])
DropEmpty_pd(rows) ==
  LET Keep(r) == ~AllNaRow(r)
  IN SelectIdx(rows, {ix \in DOMAIN rows : Keep(rows[ix])})

\* StepOfDiffs_pl with the gaps below the threshold left out of the modulus check
StepOfDiffs_pl_NoiseDropped(diff_in_second, minimum_time_step_in_second) ==
  LET candidates == {diff_in_second[i] : i \in
                       {j \in DOMAIN diff_in_second :
                          diff_in_second[j] >= minimum_time_step_in_second}}
  IN IF candidates = {} THEN Raise("TypeError", "minimum of an empty set")
     ELSE LET step_min == Min(candidates)
          IN IF \A c \in candidates : c % step_min = 0
               THEN ReturnStep(Step(step_min))
               ELSE ReturnStep(Irregular)

\* the last line of ts_step, polars: whole seconds
StepOfDiffs_pl(diff_in_second, minimum_time_step_in_second) ==
  LET candidates == {diff_in_second[i] : i \in
                       {j \in DOMAIN diff_in_second :
                          diff_in_second[j] >= minimum_time_step_in_second}}
  IN IF candidates = {} THEN Raise("TypeError", "minimum of an empty set")
     ELSE LET step_min == Min(candidates)
          IN IF \A i \in DOMAIN diff_in_second : diff_in_second[i] % step_min = 0
               THEN ReturnStep(Step(step_min))
               ELSE ReturnStep(Irregular)

\* StepOfRows_pl that takes a single row for a series with gaps
StepOfRows_pl_SingleRowMissed(x, minimum_time_step_in_second) ==
  IF Len(x) = 0 THEN ReturnStep(NoStep)
  ELSE StepOfDiffs_pl([i \in 1..(Len(x) - 1) |-> total_seconds(x[i + 1].t - x[i].t)],
                      minimum_time_step_in_second)

\* ts_step after validation, on the rows that are not fully empty
StepOfRows_pl(x, minimum_time_step_in_second) ==
  IF Len(x) \in {0, 1} THEN ReturnStep(NoStep)
  ELSE StepOfDiffs_pl([i \in 1..(Len(x) - 1) |-> total_seconds(x[i + 1].t - x[i].t)],
                      minimum_time_step_in_second)

ts_step_pl(t, minimum_time_step_in_second) ==
  LET err_str == ts_valid_pl(t)
  IN IF err_str # "" THEN Raise("TypeError", err_str)
     ELSE StepOfRows_pl(DropEmpty_pl(t.rows), minimum_time_step_in_second)

\* StepOfDiffs_pd that calls a series without a candidate irregular
StepOfDiffs_pd_EmptyIsIrregular(diff_in_second, minimum_time_step_in_second) ==
  LET candidates == {diff_in_second[i] : i \in
                       {j \in DOMAIN diff_in_second :
                          diff_in_second[j] >= minimum_time_step_in_second * TicksPerSecond}}
  IN IF candidates = {} THEN ReturnStep(Irregular)
     ELSE LET step_minimum == Min(candidates)
          IN IF \A i \in DOMAIN diff_in_second : diff_in_second[i] % step_minimum = 0
               THEN ReturnStep(Step(step_minimum \div TicksPerSecond))
               ELSE ReturnStep(Irregular)

\* the last line of ts_step, pandas: seconds as a float, kept exact as ticks
StepOfDiffs_pd(diff_in_second, minimum_time_step_in_second) ==
  LET candidates == {diff_in_second[i] : i \in
                       {j \in DOMAIN diff_in_second :
                          diff_in_second[j] >= minimum_time_step_in_second * TicksPerSecond}}
  IN IF candidates = {} THEN Raise("ValueError", "minimum of an empty set")
     ELSE LET step_minimum == Min(candidates)
          IN IF \A i \in DOMAIN diff_in_second : diff_in_second[i] % step_minimum = 0
               \* int(step_minimum)
               THEN ReturnStep(Step(step_minimum \div TicksPerSecond))
               ELSE ReturnStep(Irregular)

StepOfRows_pd(x, minimum_time_step_in_second) ==
  IF Len(x) \in {0, 1} THEN ReturnStep(NoStep)
  ELSE StepOfDiffs_pd(DiffTicks(x), minimum_time_step_in_second)

ts_step_pd(t, minimum_time_step_in_second) ==
  LET err_str == ts_valid_pd(t)
  IN IF err_str # "" THEN Raise("TypeError", err_str)
     ELSE StepOfRows_pd(DropEmpty_pd(t.rows), minimum_time_step_in_second)

ts_step(b, t, m) == IF b = "pd" THEN ts_step_pd(t, m) ELSE ts_step_pl(t, m)

(***************************************************************************)
(* na_ts_insert                                                            *)
(***************************************************************************)
\* the evenly spaced timestamps s, s + every, ... not after e
DatetimeRange(s, e, every) == [i \in 1..((e - s) \div every + 1) |-> s + (i - 1) * every]

FirstT(rows) == Min({rows[i].t : i \in DOMAIN rows})
LastT(rows) == Max({rows[i].t : i \in DOMAIN rows})

\* the row of rows at each timestamp of grid, or a row of the marker missing
JoinLeft(grid, rows, ncol, missing) ==
  [i \in DOMAIN grid |->
     IF \E k \in DOMAIN rows : rows[k].t = grid[i]
       THEN rows[CHOOSE k \in DOMAIN rows : rows[k].t = grid[i]]
       ELSE [t |-> grid[i], v |-> [j \in 1..ncol |-> missing]]]

\* na_ts_insert from the call of ts_step on: r is the de-emptied table
Pad_pl(t, r, called) ==
  IF called.exc # "" THEN called
  ELSE IF called.step.none \/ called.step.n = -1 THEN ReturnRows(SortByT(r), t.isdate)
  ELSE ReturnRows(
         SortByT(JoinLeft(
           DatetimeRange(FirstT(r), LastT(r),
                         IF t.isdate
                           THEN (called.step.n \div SecondsPerDay)
                                  * SecondsPerDay * TicksPerSecond
                           ELSE called.step.n * TicksPerSecond),
           r, Len(t.dtypes), Null)),
         t.isdate)

na_ts_insert_pl(t) ==
  IF t.shape # "frame" THEN Raise("AttributeError", "select")
  ELSE IF t.ntemporal = 0 THEN Raise("IndexError", "list index out of range")
  ELSE Pad_pl(t, DropEmpty_pl(t.rows), ts_step_pl(t, DefaultMinStep))

\* Pad_pd that hands back the table with its fully-empty rows
Pad_pd_KeepsEmptyRows(t, r, called) ==
  IF called.exc # "" THEN called
  ELSE IF called.step.none \/ called.step.n = -1 THEN ReturnRows(t.rows, t.isdate)
  ELSE ReturnRows(
         JoinLeft(DatetimeRange(FirstT(r), LastT(r), called.step.n * TicksPerSecond),
                  r, Len(t.dtypes), NaN),
         FALSE)

\* r.asfreq(freq=f'{step}s'): reindex on date_range(min, max, freq)
Pad_pd(t, r, called) ==
  IF called.exc # "" THEN called
  ELSE IF called.step.none \/ called.step.n = -1 THEN ReturnRows(r, t.isdate)
  ELSE ReturnRows(
         JoinLeft(DatetimeRange(FirstT(r), LastT(r), called.step.n * TicksPerSecond),
                  r, Len(t.dtypes), NaN),
         FALSE)

na_ts_insert_pd(t) == Pad_pd(t, DropEmpty_pd(t.rows), ts_step_pd(t, DefaultMinStep))

na_ts_insert(b, t) == IF b = "pd" THEN na_ts_insert_pd(t) ELSE na_ts_insert_pl(t)

(***************************************************************************)
(* hourly_2_daily                                                          *)
(***************************************************************************)
\* a day_starts_at argument: an int n, or some other object (isint = FALSE)
BadDayStart(day_starts_at) ==
  ~day_starts_at.isint \/ day_starts_at.n < 0 \/ day_starts_at.n > MaxDayStart

\* BadProp without the lower end of the range
BadProp_UpperOnly(prop) == prop.num > prop.den

\* prop is the fraction num/den, den > 0
BadProp(prop) == prop.num < 0 \/ prop.num > prop.den

\* DateOf that shifts by day_starts_at hours only
DateOf_NoExtraHour(t, day_starts_at) ==
  ((t - SecondsPerHour * day_starts_at.n * TicksPerSecond)
     \div (SecondsPerDay * TicksPerSecond)) * (SecondsPerDay * TicksPerSecond)

\* (t - timedelta(seconds=3600 * (1 + day_starts_at))).date(), as the first tick of the day
DateOf(t, day_starts_at) ==
  ((t - SecondsPerHour * (1 + day_starts_at.n) * TicksPerSecond)
     \div (SecondsPerDay * TicksPerSecond)) * (SecondsPerDay * TicksPerSecond)

\* the distinct elements of a sequence, in order of first appearance
Distinct(s) ==
  LET F[i \in 0..Len(s)] ==
        IF i = 0 THEN <<>>
        ELSE LET seen == F[i - 1]
             IN IF \E k \in 1..Len(seen) : seen[k] = s[i]
                  THEN seen ELSE Append(seen, s[i])
  IN F[Len(s)]

SumSeq(s) ==
  LET F[i \in 0..Len(s)] == IF i = 0 THEN 0 ELSE F[i - 1] + s[i]
  IN F[Len(s)]

\* agg over the values (plain numbers) of one bucket; agg is "mean" or "sum"
Aggregate(agg, xs) ==
  IF agg = "mean" THEN Frac(SumSeq(xs), Len(xs)) ELSE Val(SumSeq(xs))

\* the values of the rows of one Date, in table order
ValuesOf(dated, day) ==
  LET Keep(r) == r.t = day
      Pick(g) == [i \in DOMAIN g |-> g[i].v[1].x]
  IN Pick(SelectIdx(dated, {ix \in DOMAIN dated : Keep(dated[ix])}))

\* rows (Date, value cell) -> one row per Date, in order of first appearance
GroupAgg(dated, agg) ==
  LET Rows(dates) ==
        [i \in DOMAIN dates |->
           [t |-> dates[i], v |-> <<Aggregate(agg, ValuesOf(dated, dates[i]))>>]]
  IN Rows(Distinct([i \in DOMAIN dated |-> dated[i].t]))

AggLabel(agg) == IF agg = "mean" THEN "Agg_mean" ELSE "Agg_sum"

Daily(rows) == Table("frame", 1, TRUE, <<"num">>, rows)

\* .with_columns(pl.lit(col_v).alias('Site')) / .assign(Site=site)
Labelled(padded, agg, site) ==
  IF padded.exc # "" THEN padded
  ELSE [padded EXCEPT !.label = AggLabel(agg), !.site = site]

\* with_columns(count().over('Date') / 24), filter(Prop >= prop), drop_nulls
KeepProp_pl(dated, prop) ==
  LET Count(day) == Cardinality({i \in DOMAIN dated :
                                   dated[i].t = day /\ ~is_null(dated[i].v[1])})
      Keep(r) == /\ Count(r.t) * prop.den >= prop.num * HoursPerDay
                 /\ ~is_null(r.v[1])
  IN SelectIdx(dated, {ix \in DOMAIN dated : Keep(dated[ix])})

FirstNumeric(dtypes) ==
  CHOOSE j \in DOMAIN dtypes :
    /\ dtypes[j] = "num"
    /\ \A k \in DOMAIN dtypes : dtypes[k] = "num" => j <= k

Dated_pl(rows, col_v, day_starts_at) ==
  [i \in DOMAIN rows |->
     [t |-> DateOf(rows[i].t, day_starts_at), v |-> <<fill_nan(rows[i].v[col_v])>>]]

hourly_2_daily_pl(hts, day_starts_at, agg, prop) ==
  IF BadDayStart(day_starts_at)
    THEN Raise("ValueError", "day_starts_at must be an integer in [0, 23]!")
  ELSE IF BadProp(prop)
    THEN Raise("ValueError", "prop must be in [0, 1]!")
  ELSE IF hts.shape # "frame" THEN Raise("AttributeError", "select")
  ELSE IF hts.ntemporal = 0 THEN Raise("IndexError", "list index out of range")
  ELSE IF NumericWidth(hts) = 0 THEN Raise("IndexError", "list index out of range")
  ELSE Labelled(
         na_ts_insert_pl(Daily(GroupAgg(
           KeepProp_pl(Dated_pl(hts.rows, FirstNumeric(hts.dtypes), day_starts_at), prop),
           agg))),
         agg, FirstNumeric(hts.dtypes))

\* u['Prop'] = groupby('Date')['Value'].transform('size') / 24; query('Prop >= @prop')
KeepProp_pd(dated, prop) ==
  LET Size(day) == Cardinality({i \in DOMAIN dated : dated[i].t = day})
      Keep(r) == Size(r.t) * prop.den >= prop.num * HoursPerDay
  IN SelectIdx(dated, {ix \in DOMAIN dated : Keep(dated[ix])})

Dated_pd(rows, day_starts_at) ==
  [i \in DOMAIN rows |->
     [t |-> DateOf(rows[i].t, day_starts_at), v |-> <<rows[i].v[1]>>]]

\* .dropna(): a missing cell in any column drops the row
DropNa_pd(rows) ==
  LET NoNa(r) == \A j \in DOMAIN r.v : ~isna(r.v[j])
  IN SelectIdx(rows, {ix \in DOMAIN rows : NoNa(rows[ix])})

\* hts_c.squeeze().values fits the one column 'Value' of len(hts_c) rows
Squeezable(nrow, ncol) == ncol = 1 /\ nrow # 1

\* hourly_2_daily from hts_c on
Daily_pd(hts_c, ncol, day_starts_at, agg, prop) ==
  IF ~Squeezable(Len(hts_c), ncol)
    THEN IF ncol = 1
           THEN Raise("AttributeError", "values")
           ELSE Raise("ValueError", "Per-column arrays must each be 1-dimensional")
  ELSE Labelled(
         na_ts_insert_pd(Daily(GroupAgg(
           KeepProp_pd(Dated_pd(hts_c, day_starts_at), prop), agg))),
         agg, 1)

\* hts_c.index - pd.Timedelta(...) needs an index of dates or datetimes
Padded_pd(hts, padded, day_starts_at, agg, prop) ==
  IF padded.exc # "" THEN padded
  ELSE IF hts.ntemporal # 1 THEN Raise("TypeError", "unsupported operand type(s) for -")
  ELSE Daily_pd(DropNa_pd(padded.rows), Len(hts.dtypes), day_starts_at, agg, prop)

hourly_2_daily_pd(hts, day_starts_at, agg, prop) ==
  IF BadDayStart(day_starts_at)
    THEN Raise("ValueError", "day_starts_at must be an integer in [0, 23]!")
  ELSE IF BadProp(prop)
    THEN Raise("ValueError", "prop must be in [0, 1]!")
  ELSE Padded_pd(hts, na_ts_insert_pd(hts), day_starts_at, agg, prop)

hourly_2_daily(b, hts, day_starts_at, agg, prop) ==
  IF b = "pd" THEN hourly_2_daily_pd(hts, day_starts_at, agg, prop)
  ELSE hourly_2_daily_pl(hts, day_starts_at, agg, prop)

\* what a call can come to.  The daily table of pandas is indexed by
\* datetime.date objects; with two or more rows ts_step divides the
\* differences of that index, an object column that starts with NaN, by
\* np.timedelta64(1, 's'): pandas builds either do it or raise TypeError.
DateIndexOutcomes(b, returned) ==
  IF b = "pd" /\ returned.exc = "" /\ Len(returned.rows) >= 2
    THEN {returned, Raise("TypeError", "unsupported operand type(s) for /")}
    ELSE {returned}

hourly_2_daily_outcomes(b, hts, day_starts_at, agg, prop) ==
  DateIndexOutcomes(b, hourly_2_daily(b, hts, day_starts_at, agg, prop))

(***************************************************************************)
(* ts_info.  One record per column: site (the column), start and end       *)
(* (ticks), length (seconds; Length_yr is length / seconds_year) and       *)
(* completion (per cent), each a cell; schema lists the output columns.    *)
(***************************************************************************)
InfoRow(site, start, end, length, completion) ==
  [site |-> site, start |-> start, end |-> end, length |-> length,
   completion |-> completion]

\* Schema with the completeness column whatever the step
Schema_AlwaysCompletion(con) == <<"Site", "Start", "End", "Length_yr", "Completion_%">>

Schema(con) ==
  IF con.n = -1 THEN <<"Site", "Start", "End", "Length_yr">>
  ELSE <<"Site", "Start", "End", "Length_yr", "Completion_%">>

\* unpivot, filter(V.fill_nan(None).is_not_null()), group_by('Site'): the
\* timestamps at which column j holds a value
Obs_pl(t, j) == {t.rows[i].t : i \in {k \in DOMAIN t.rows : ~is_null(fill_nan(t.rows[k].v[j]))}}

InfoOf_pl(j, obs, con) ==
  IF obs = {} THEN InfoRow(j, Null, Null, Null, Null)
  ELSE IF con.n = -1
    THEN InfoRow(j, Val(Min(obs)), Val(Max(obs)),
                 Val(total_seconds(Max(obs) - Min(obs))), Null)
  ELSE InfoRow(j, Val(Min(obs)), Val(Max(obs)),
               Val(total_seconds(Max(obs) - Min(obs)) + con.n),
               Frac(Cardinality(obs) * con.n * 100,
                    total_seconds(Max(obs) - Min(obs)) + con.n))

\* Info_pl with an inner join: only the columns that hold a value are reported
Info_pl_InnerJoin(t, called) ==
  IF called.exc # "" THEN called
  ELSE IF called.step.none THEN ReturnNone
  ELSE [Blank EXCEPT
          !.msg = "info",
          !.info = LET all == [j \in DOMAIN t.dtypes |->
                                 InfoOf_pl(j, Obs_pl(t, j), called.step)]
                   IN SelectIdx(all, {j \in DOMAIN all : Obs_pl(t, j) # {}}),
          !.schema = Schema(called.step)]

Info_pl(t, called) ==
  IF called.exc # "" THEN called
  ELSE IF called.step.none THEN ReturnNone
  ELSE [Blank EXCEPT
          !.msg = "info",
          !.info = [j \in DOMAIN t.dtypes |-> InfoOf_pl(j, Obs_pl(t, j), called.step)],
          !.schema = Schema(called.step)]

ts_info_pl(t) == Info_pl(t, ts_step_pl(t, DefaultMinStep))

\* melt(...).dropna(), groupby('Site', sort=False)
Obs_pd(t, j) == {t.rows[i].t : i \in {k \in DOMAIN t.rows : ~isna(t.rows[k].v[j])}}

\* InfoOf_pd without the step added to the span and to the total
InfoOf_pd_NoStepAdded(j, obs, con) ==
  IF obs = {} THEN InfoRow(j, NaN, NaN, NaN, NaN)
  ELSE IF con.n = -1
    THEN InfoRow(j, Val(Min(obs)), Val(Max(obs)),
                 Frac(Max(obs) - Min(obs), TicksPerSecond), NaN)
  ELSE InfoRow(j, Val(Min(obs)), Val(Max(obs)),
               Frac(Max(obs) - Min(obs), TicksPerSecond),
               IF Max(obs) = Min(obs) THEN NaN
               ELSE Frac(Cardinality(obs) * con.n * TicksPerSecond * 100,
                         Max(obs) - Min(obs)))

InfoOf_pd(j, obs, con) ==
  IF obs = {} THEN InfoRow(j, NaN, NaN, NaN, NaN)
  ELSE IF con.n = -1
    THEN InfoRow(j, Val(Min(obs)), Val(Max(obs)),
                 Frac(Max(obs) - Min(obs), TicksPerSecond), NaN)
  ELSE InfoRow(j, Val(Min(obs)), Val(Max(obs)),
               Frac(Max(obs) - Min(obs) + con.n * TicksPerSecond, TicksPerSecond),
               Frac(Cardinality(obs) * con.n * TicksPerSecond * 100,
                    Max(obs) - Min(obs) + con.n * TicksPerSecond))

Info_pd(t, called) ==
  IF called.exc # "" THEN called
  ELSE IF called.step.none THEN ReturnNone
  ELSE [Blank EXCEPT
          !.msg = "info",
          !.info = [j \in DOMAIN t.dtypes |-> InfoOf_pd(j, Obs_pd(t, j), called.step)],
          !.schema = Schema(called.step)]

ts_info_pd(t) == Info_pd(t, ts_step_pd(t, DefaultMinStep))

ts_info(b, t) == IF b = "pd" THEN ts_info_pd(t) ELSE ts_info_pl(t)

(***************************************************************************)
(* The reshaping.  Wide to long: the unpivot of ts_info, one record per    *)
(* (row, column), column after column.  Long to wide: the pivot of the     *)
(* batch script, one column per name and one row per timestamp, both in    *)
(* order of first appearance, empty positions null, then sorted by time.   *)
(***************************************************************************)
\* polars unpivot / pandas melt: all rows of column 1, then of column 2, ...
unpivot(t) ==
  LET nrow == Len(t.rows)
  IN [k \in 1..(Len(t.dtypes) * nrow) |->
        LET j == ((k - 1) \div nrow) + 1
            i == ((k - 1) % nrow) + 1
        IN [t |-> t.rows[i].t, site |-> j, v |-> t.rows[i].v[j]]]

\* DropMissing that keeps the NaN: filter(col('V').is_not_null())
DropMissing_NullOnly(b, long) ==
  SelectIdx(long, {k \in DOMAIN long : ~is_null(long[k].v)})

\* polars filter(col('V').fill_nan(None).is_not_null()), pandas dropna()
DropMissing(b, long) ==
  IF b = "pd" THEN SelectIdx(long, {k \in DOMAIN long : ~isna(long[k].v)})
  ELSE SelectIdx(long, {k \in DOMAIN long : ~is_null(fill_nan(long[k].v))})

\* the pivot: with two records at one (timestamp, name) it raises
pivot(long) ==
  IF \E k, l \in DOMAIN long :
       k # l /\ long[k].t = long[l].t /\ long[k].site = long[l].site
    THEN Raise("ComputeError", "found multiple elements in the same group")
  ELSE LET names == Distinct([k \in DOMAIN long |-> long[k].site])
           stamps == Distinct([k \in DOMAIN long |-> long[k].t])
           CellAt(at, name) ==
             IF \E k \in DOMAIN long : long[k].t = at /\ long[k].site = name
               THEN long[CHOOSE k \in DOMAIN long :
                           long[k].t = at /\ long[k].site = name].v
               ELSE Null
           w == [i \in DOMAIN stamps |->
                   [t |-> stamps[i],
                    v |-> [p \in DOMAIN names |-> CellAt(stamps[i], names[p])]]]
       IN [ReturnRows(SortByT(w), FALSE) EXCEPT !.schema = names]

(***************************************************************************)
(* clean_24h_datetime.  A string is the sequence of its characters.        *)
(***************************************************************************)
Digits == <<"0", "1", "2", "3", "4", "5", "6", "7", "8", "9">>
IsDigit(c) == \E n \in DOMAIN Digits : Digits[n] = c
DigitValue(c) == (CHOOSE n \in DOMAIN Digits : Digits[n] = c) - 1

\* int(s) of a decimal literal; IsInt(s): int(s) does not raise
IsInt(s) == s # <<>> /\ \A i \in DOMAIN s : IsDigit(s[i])
int(s) ==
  LET F[i \in 0..Len(s)] == IF i = 0 THEN 0 ELSE 10 * F[i - 1] + DigitValue(s[i])
  IN F[Len(s)]

\* str.split(sep): the pieces between the separators
split(s, sep) ==
  LET cuts == SelectIdx([i \in DOMAIN s |-> i], {i \in DOMAIN s : s[i] = sep})
      From(k) == IF k = 1 THEN 1 ELSE cuts[k - 1] + 1
      To(k) == IF k = Len(cuts) + 1 THEN Len(s) ELSE cuts[k] - 1
  IN [k \in 1..(Len(cuts) + 1) |-> SubSeq(s, From(k), To(k))]

\* the decimal digits of n, zero-padded to width characters
Pow10 == [k \in 0..3 |-> IF k = 0 THEN 1 ELSE IF k = 1 THEN 10
                          ELSE IF k = 2 THEN 100 ELSE 1000]
zfill(n, width) ==
  [i \in 1..width |-> Digits[((n \div Pow10[width - i]) % 10) + 1]]

\* %Y of the C library: four digits, zero-padded or, as glibc has it, the
\* digits of the year alone
YearText(Y, padded) ==
  IF padded \/ Y >= 1000 THEN zfill(Y, 4)
  ELSE zfill(Y, IF Y < 10 THEN 1 ELSE IF Y < 100 THEN 2 ELSE 3)

\* strftime('%Y-%m-%dT%H:%M:%S')
strftime(dt, padded) ==
  YearText(dt.Y, padded) \o <<"-">> \o zfill(dt.m, 2) \o <<"-">> \o zfill(dt.d, 2) \o <<"T">>
    \o zfill(dt.H, 2) \o <<":">> \o zfill(dt.M, 2) \o <<":">> \o zfill(dt.S, 2)

is_leap(Y) == Y % 4 = 0 /\ (Y % 100 # 0 \/ Y % 400 = 0)
days_in_month(Y, m) ==
  IF m = 2 THEN (IF is_leap(Y) THEN 29 ELSE 28)
  ELSE IF m \in {4, 6, 9, 11} THEN 30 ELSE 31

\* datetime.datetime(Y, m, d, H, M, S) does not raise ValueError
datetime_ok(Y, m, d, H, M, S) ==
  /\ Y \in 1..9999 /\ m \in 1..12
  /\ d >= 1 /\ d <= days_in_month(Y, m)
  /\ H \in 0..23 /\ M \in 0..59 /\ S \in 0..59

\* dt + datetime.timedelta(hours=1), short of the last day of year 9999
plus_one_hour(dt) ==
  IF dt.H < 23 THEN [dt EXCEPT !.H = dt.H + 1]
  ELSE IF dt.d < days_in_month(dt.Y, dt.m) THEN [dt EXCEPT !.H = 0, !.d = dt.d + 1]
  ELSE IF dt.m < 12 THEN [dt EXCEPT !.H = 0, !.d = 1, !.m = dt.m + 1]
  ELSE [dt EXCEPT !.H = 0, !.d = 1, !.m = 1, !.Y = dt.Y + 1]

StampLength == 19

ReturnText(s) == [Blank EXCEPT !.text = s]

\* the return statement, on the integers of the string
Cleaned(s19, f, padded) ==
  LET n == Len(f)
  IN IF f[n - 2] <= 23 THEN ReturnText(s19)
     ELSE IF n # 6 THEN Raise("TypeError", "datetime arguments")
     ELSE IF ~datetime_ok(f[1], f[2], f[3], f[4] - 1, f[5], f[6])
            THEN Raise("ValueError", "hour must be in 0..23")
     ELSE IF f[1] = 9999 /\ f[2] = 12 /\ f[3] = 31 /\ f[4] = 24
            THEN Raise("OverflowError", "date value out of range")
     ELSE ReturnText(strftime(plus_one_hour(
            [Y |-> f[1], m |-> f[2], d |-> f[3], H |-> f[4] - 1, M |-> f[5], S |-> f[6]]),
            padded))

\* the split and the conversion to integers, on the first 19 characters
Parsed(s19, halves, padded) ==
  IF Len(halves) # 2 THEN Raise("ValueError", "not enough values to unpack")
  ELSE LET pieces == split(halves[1], "-") \o split(halves[2], ":")
       IN IF \E k \in DOMAIN pieces : ~IsInt(pieces[k])
            THEN Raise("ValueError", "invalid literal for int()")
          ELSE IF Len(pieces) < 3 THEN Raise("ValueError", "not enough values to unpack")
          ELSE Cleaned(s19, [k \in DOMAIN pieces |-> int(pieces[k])], padded)

First19(s) == SubSeq(s, 1, IF Len(s) < StampLength THEN Len(s) ELSE StampLength)

clean_24h_datetime(isstr, shit_datetime, padded) ==
  IF ~isstr THEN ReturnNone
  ELSE Parsed(First19(shit_datetime), split(First19(shit_datetime), "T"), padded)

\* what the call can return, whichever way the C library writes a short year
clean_24h_datetime_outcomes(isstr, shit_datetime) ==
  {clean_24h_datetime(isstr, shit_datetime, padded) : padded \in BOOLEAN}

(***************************************************************************)
(* Inputs                                                                  *)
(***************************************************************************)
Backends == {"pd", "pl"}

\* gaps between consecutive rows, in ticks: a fraction of a second, half the
\* default threshold, the threshold, the threshold and a fraction of a second,
\* twice the threshold
Gaps ==
  {1, (DefaultMinStep \div 2) * TicksPerSecond, DefaultMinStep * TicksPerSecond,
   DefaultMinStep * TicksPerSecond + 1, 2 * DefaultMinStep * TicksPerSecond}

MinSteps == {DefaultMinStep, 2 * DefaultMinStep}

\* the timestamps that start at 0 and go on by the gaps
Timeline(gaps) ==
  LET F[i \in 1..(Len(gaps) + 1)] == IF i = 1 THEN 0 ELSE F[i - 1] + gaps[i - 1]
  IN F

\* the value of row i, column j: every cell of a table differs from the others
CellValue(i, j) == Val(10 * i + j)

\* the missing markers a column of the backend can hold
Markers(b) == IF b = "pd" THEN {NaN} ELSE {Null, NaN}

\* a well-typed table with one or two numeric columns, sorted unique timestamps
SeriesTable(ncol, gaps, present, marker) ==
  LET at == Timeline(gaps)
  IN Table("frame", 1, FALSE, [j \in 1..ncol |-> "num"],
           [i \in DOMAIN present |->
              [t |-> at[i],
               v |-> [j \in 1..ncol |->
                        IF present[i][j] THEN CellValue(i, j) ELSE marker]]])

InitSeries ==
  /\ backend \in Backends
  /\ \E n \in 0..MaxRows, ncol \in 1..2 :
       \E gaps \in [1..(IF n = 0 THEN 0 ELSE n - 1) -> Gaps],
          present \in [1..n -> [1..ncol -> BOOLEAN]],
          marker \in Markers(backend) :
         ts = SeriesTable(ncol, gaps, present, marker)

\* a table of any shape: wrong object, 0..2 temporal keys, text columns,
\* unsorted and duplicate timestamps
ShapeTimes == {0, DefaultMinStep * TicksPerSecond}
ShapeDtypes ==
  {<<>>, <<"num">>, <<"str">>, <<"num", "num">>, <<"num", "str">>, <<"str", "num">>}

ShapeTable(shape, ntemporal, dtypes, times) ==
  Table(shape, ntemporal, FALSE, dtypes,
        [i \in DOMAIN times |->
           [t |-> times[i], v |-> [j \in DOMAIN dtypes |-> CellValue(i, j)]]])

InitShapes ==
  /\ backend \in Backends
  /\ \E n \in 0..MaxRows, shape \in {"frame", "series", "other"}, ntemporal \in 0..2 :
       \E times \in [1..n -> ShapeTimes],
          dtypes \in IF shape = "series" THEN {<<"num">>, <<"str">>} ELSE ShapeDtypes :
         ts = ShapeTable(shape, ntemporal, dtypes, times)

NoArg == [m |-> 0, day_starts_at |-> [isint |-> TRUE, n |-> 0], agg |-> "",
          prop |-> [num |-> 0, den |-> 1], isstr |-> TRUE, text |-> <<>>]

\* no worker pool and no run of the batch script
NoPool == <<>>
NoDriver == <<>>

NoCall ==
  /\ op = "init"
  /\ arg = NoArg
  /\ ret = Blank
  /\ pool = NoPool
  /\ driver = NoDriver

Init == (InitSeries \/ InitShapes) /\ NoCall

(***************************************************************************)
(* The caller's table after a call.  Polars frames are never assigned      *)
(* into.  The pandas functions assign into r (r.index.freq, r.attrs), u    *)
(* (u['Prop']), ts_w (ts_w.columns) and info (info['Length_yr'],           *)
(* info['Completion_%']): objects made by dropna/asfreq, pd.DataFrame,     *)
(* reset_index and groupby/join, none of them the table passed in.         *)
(***************************************************************************)
\* AssignedInto with dropna(inplace=True) on the table passed to na_ts_insert
AssignedInto_DropsInPlace(b, o) ==
  IF b = "pl" THEN {}
  ELSE IF o = "na_ts_insert" THEN {"ts", "r"}
  ELSE IF o = "hourly_2_daily" THEN {"u"}
  ELSE IF o = "ts_info" THEN {"ts_w", "info"}
  ELSE {}

\* the names of the objects the code of o assigns into
AssignedInto(b, o) ==
  IF b = "pl" THEN {}
  ELSE IF o = "na_ts_insert" THEN {"r"}
  ELSE IF o = "hourly_2_daily" THEN {"u"}
  ELSE IF o = "ts_info" THEN {"ts_w", "info"}
  ELSE {}

\* the names that denote the table passed in
InputNames == {"ts", "hts"}

\* an assignment into the table passed in shows in the caller's table: its
\* rows are then the rows the call worked out
InputAfter(b, o, t, returned) ==
  IF AssignedInto(b, o) \cap InputNames = {} \/ returned.exc # "" THEN t
  ELSE [t EXCEPT !.rows = returned.rows]

(***************************************************************************)
(* Calls                                                                   *)
(***************************************************************************)
Validate ==
  /\ op = "init"
  /\ op' = "ts_valid"
  /\ ret' = ReturnMsg(ts_valid(backend, ts))
  /\ UNCHANGED <<backend, ts, arg, pool, driver>>

TsStep ==
  /\ op = "init"
  /\ \E m \in MinSteps :
       /\ arg' = [arg EXCEPT !.m = m]
       /\ ret' = ts_step(backend, ts, m)
  /\ op' = "ts_step"
  /\ ts' = InputAfter(backend, "ts_step", ts, ret')
  /\ UNCHANGED <<backend, pool, driver>>

NaTsInsert ==
  /\ op = "init"
  /\ op' = "na_ts_insert"
  /\ ret' = na_ts_insert(backend, ts)
  /\ ts' = InputAfter(backend, "na_ts_insert", ts, ret')
  /\ UNCHANGED <<backend, arg, pool, driver>>

\* the caller passes the table it got back to na_ts_insert once more
NaTsInsertAgain ==
  /\ op = "na_ts_insert"
  /\ ret.exc = ""
  /\ op' = "na_ts_insert_again"
  /\ ts' = Table("frame", 1, ret.isdate, ts.dtypes, ret.rows)
  /\ ret' = na_ts_insert(backend, ts')
  /\ UNCHANGED <<backend, arg, pool, driver>>

TsInfo ==
  /\ op = "init"
  /\ op' = "ts_info"
  /\ ret' = ts_info(backend, ts)
  /\ ts' = InputAfter(backend, "ts_info", ts, ret')
  /\ UNCHANGED <<backend, arg, pool, driver>>

\* the strings cleaned: the last days of months and of a year, of February in
\* leap and other years, a day within a month, a day of a year below 1000, the
\* last day of year 9999; the hours 0, 23, 24 and 25; with and without
\* characters after the first 19
CleanDates ==
  {<<2020, 2, 28>>, <<2020, 2, 29>>, <<2021, 2, 28>>, <<1900, 2, 28>>, <<2000, 2, 28>>,
   <<2021, 4, 30>>, <<2020, 12, 31>>, <<2021, 1, 15>>, <<999, 1, 1>>, <<9999, 12, 31>>}
CleanHours == {0, 23, 24, 25}
CleanTails == {<<>>, <<".", "5", "Z">>}

Stamp(date, H, M, S) ==
  strftime([Y |-> date[1], m |-> date[2], d |-> date[3], H |-> H, M |-> M, S |-> S], TRUE)

Clean24h ==
  /\ op = "init"
  /\ op' = "clean_24h_datetime"
  /\ \E isstr \in BOOLEAN, date \in CleanDates, H \in CleanHours,
        M \in {0, 59}, S \in {0, 59}, tail \in CleanTails :
       /\ arg' = [arg EXCEPT !.isstr = isstr, !.text = Stamp(date, H, M, S) \o tail]
       /\ ret' \in clean_24h_datetime_outcomes(isstr, arg'.text)
  /\ UNCHANGED <<backend, ts, pool, driver>>

\* wide to long, the missing values dropped, and back to wide
Reshape ==
  /\ op = "init"
  /\ op' = "reshape"
  /\ ret' = pivot(DropMissing(backend, unpivot(ts)))
  /\ UNCHANGED <<backend, ts, arg, pool, driver>>

\* the configurations tried: in range, at both ends, just outside, not an int
DayStarts ==
  {[isint |-> TRUE, n |-> h] : h \in {-1, 0, 9, MaxDayStart, MaxDayStart + 1}}
    \cup {[isint |-> FALSE, n |-> 9]}
Props ==
  {[num |-> p, den |-> HoursPerDay] : p \in {-1, 0, 1, HoursPerDay, HoursPerDay + 1}}
Aggs == {"mean", "sum"}

Hourly2Daily ==
  /\ op = "init"
  /\ \E day_starts_at \in DayStarts, agg \in Aggs, prop \in Props :
       /\ arg' = [arg EXCEPT !.day_starts_at = day_starts_at, !.agg = agg,
                             !.prop = prop]
       /\ ret' \in hourly_2_daily_outcomes(backend, ts, day_starts_at, agg, prop)
  /\ op' = "hourly_2_daily"
  /\ ts' = InputAfter(backend, "hourly_2_daily", ts, ret')
  /\ UNCHANGED <<backend, pool, driver>>

Next == Validate \/ TsStep \/ NaTsInsert \/ NaTsInsertAgain \/ TsInfo

Spec == Init /\ [][Next]_vars

\* hourly_2_daily under every configuration, on tables of any shape
InitAgg == InitShapes /\ NoCall

NextAgg == Hourly2Daily

SpecAgg == InitAgg /\ [][NextAgg]_vars

\* hourly_2_daily on hourly tables of one column.  The timestamps are taken
\* among these, counted in half hours from 00:00 of day 0: 09:00, 09:30 and
\* 10:00 of day 0; 00:00, 01:00, 09:00 and 10:00 of day 1; 10:00 of day 2 and
\* of day 3
HourlyStamps == {18, 19, 20, 48, 50, 66, 68, 116, 164}

HalfHourTicks == (SecondsPerHour \div 2) * TicksPerSecond
DayTicks == SecondsPerDay * TicksPerSecond

HourlyTable(stamps, present, marker) ==
  Table("frame", 1, FALSE, <<"num">>,
        [i \in DOMAIN stamps |->
           [t |-> stamps[i] * HalfHourTicks,
            v |-> <<IF present[i] THEN CellValue(i, 1) ELSE marker>>]])

InitHourly ==
  /\ backend \in Backends
  /\ \E n \in 0..MaxHourly :
       \E stamps \in [1..n -> HourlyStamps], present \in [1..n -> BOOLEAN],
          marker \in Markers(backend) :
         /\ \A i \in 1..(n - 1) : stamps[i] < stamps[i + 1]
         /\ ts = HourlyTable(stamps, present, marker)
  /\ NoCall

\* the configurations tried on the hourly tables, all in range
DayStartsHourly == {[isint |-> TRUE, n |-> h] : h \in {0, 9}}
PropsHourly == {[num |-> p, den |-> HoursPerDay] : p \in {0, 1, 2, HoursPerDay}}

AggregateHourly ==
  /\ op = "init"
  /\ \E day_starts_at \in DayStartsHourly, agg \in Aggs, prop \in PropsHourly :
       /\ arg' = [arg EXCEPT !.day_starts_at = day_starts_at, !.agg = agg,
                             !.prop = prop]
       /\ ret' \in hourly_2_daily_outcomes(backend, ts, day_starts_at, agg, prop)
  /\ op' = "hourly_2_daily"
  /\ ts' = InputAfter(backend, "hourly_2_daily", ts, ret')
  /\ UNCHANGED <<backend, pool, driver>>

SpecHourly == InitHourly /\ [][AggregateHourly]_vars

\* na_ts_insert and the other calls on tables whose rows sit on the slots of
\* a grid of DefaultMinStep seconds: a slot has no row, a row with a value or
\* a fully-empty row
SlotKinds == {"absent", "data", "empty"}

GridTable(slots, marker) ==
  LET at == SelectIdx([i \in DOMAIN slots |-> i], {i \in DOMAIN slots : slots[i] # "absent"})
  IN Table("frame", 1, FALSE, <<"num">>,
           [k \in DOMAIN at |->
              [t |-> (at[k] - 1) * DefaultMinStep * TicksPerSecond,
               v |-> <<IF slots[at[k]] = "data" THEN CellValue(at[k], 1) ELSE marker>>]])

InitGrid ==
  /\ backend \in Backends
  /\ \E slots \in [1..MaxSlots -> SlotKinds], marker \in Markers(backend) :
       ts = GridTable(slots, marker)
  /\ NoCall

SpecGrid == InitGrid /\ [][Next]_vars

\* the four operations on the tables of the grid
NextCalls == TsStep \/ NaTsInsert \/ TsInfo \/ AggregateHourly

SpecCalls == InitGrid /\ [][NextCalls]_vars

\* the validator and the validating calls on tables of any shape and on the
\* tables of the grid, whose rows hold missing cells
InitValid == InitAgg \/ InitGrid

SpecValid == InitValid /\ [][Next]_vars

\* ts_info alone on the well-typed series
SpecInfo == Init /\ [][TsInfo]_vars

\* ts_step alone, under both thresholds
SpecStep == Init /\ [][TsStep]_vars

(***************************************************************************)
(* Concurrent workers.  Each worker calls ts_step or na_ts_insert on its   *)
(* own table, statement by statement, the workers interleaved at will.     *)
(* The names the code assigns (r in na_ts_insert; x, diff_in_second and    *)
(* the returned step in ts_step) are locals of the call: each call has its *)
(* own frame.  The modules assign no module-level name after import.       *)
(***************************************************************************)
Workers == 1..NumWorkers

\* the tables handed to the workers: a grid with a hole, a grid with a
\* fully-empty row, a single row of data after a fully-empty row
JobTables ==
  {GridTable(<<"data", "absent", "data", "data">>, NaN),
   GridTable(<<"data", "empty", "data">>, NaN),
   GridTable(<<"empty", "data">>, NaN)}

JobOps == {"ts_step", "na_ts_insert"}

\* Frame with one module-level set of names for all the calls
Frame_ModuleLevel(w) == 1

\* the frame that holds the locals of the call of worker w
Frame(w) == w

NoLocals == [x |-> <<>>, r |-> <<>>, called |-> Blank]

\* where a call starts: na_ts_insert at r = ..., ts_step at x = ...
FirstStatement(o) == IF o = "na_ts_insert" THEN "r" ELSE "x"

InitWorkers ==
  /\ backend \in Backends
  /\ ts = Table("frame", 1, FALSE, <<"num">>, <<>>)
  /\ op = "init" /\ arg = NoArg /\ ret = Blank
  /\ driver = NoDriver
  /\ \E tables \in [Workers -> JobTables], ops \in [Workers -> JobOps] :
       pool = [job |-> [w \in Workers |->
                          [ts |-> tables[w], op |-> ops[w],
                           pc |-> FirstStatement(ops[w]),
                           ret |-> Blank, first |-> Blank, again |-> FALSE]],
               frame |-> [f \in Workers |-> NoLocals]]

\* na_ts_insert: r = ts ... dropna / filter
WorkerDropsRows(w) ==
  /\ pool.job[w].pc = "r"
  /\ pool' = [pool EXCEPT
                !.frame[Frame(w)].r =
                   IF backend = "pd" THEN DropEmpty_pd(pool.job[w].ts.rows)
                   ELSE DropEmpty_pl(pool.job[w].ts.rows),
                !.job[w].pc = "x"]
  /\ UNCHANGED <<backend, ts, op, arg, ret, driver>>

\* ts_step: the validation and x = ts ... dropna / filter
WorkerDropsInStep(w) ==
  /\ pool.job[w].pc = "x"
  /\ IF ts_valid(backend, pool.job[w].ts) # ""
       THEN pool' = [pool EXCEPT
                       !.frame[Frame(w)].called =
                          Raise("TypeError", ts_valid(backend, pool.job[w].ts)),
                       !.job[w].pc = "return"]
       ELSE pool' = [pool EXCEPT
                       !.frame[Frame(w)].x =
                          IF backend = "pd" THEN DropEmpty_pd(pool.job[w].ts.rows)
                          ELSE DropEmpty_pl(pool.job[w].ts.rows),
                       !.job[w].pc = "diffs"]
  /\ UNCHANGED <<backend, ts, op, arg, ret, driver>>

\* ts_step: from len(x) to its return
WorkerInfersStep(w) ==
  /\ pool.job[w].pc = "diffs"
  /\ pool' = [pool EXCEPT
                !.frame[Frame(w)].called =
                   IF backend = "pd"
                     THEN StepOfRows_pd(pool.frame[Frame(w)].x, DefaultMinStep)
                     ELSE StepOfRows_pl(pool.frame[Frame(w)].x, DefaultMinStep),
                !.job[w].pc = "return"]
  /\ UNCHANGED <<backend, ts, op, arg, ret, driver>>

\* the call returns: ts_step its step, na_ts_insert the padded r
WorkerReturns(w) ==
  /\ pool.job[w].pc = "return"
  /\ pool' = [pool EXCEPT
                !.job[w].ret =
                   IF pool.job[w].op = "ts_step" THEN pool.frame[Frame(w)].called
                   ELSE IF backend = "pd"
                     THEN Pad_pd(pool.job[w].ts, pool.frame[Frame(w)].r,
                                 pool.frame[Frame(w)].called)
                     ELSE Pad_pl(pool.job[w].ts, pool.frame[Frame(w)].r,
                                 pool.frame[Frame(w)].called),
                !.job[w].pc = "done"]
  /\ UNCHANGED <<backend, ts, op, arg, ret, driver>>

\* the worker makes the same call once more
WorkerRepeats(w) ==
  /\ pool.job[w].pc = "done"
  /\ ~pool.job[w].again
  /\ pool' = [pool EXCEPT
                !.job[w].first = pool.job[w].ret,
                !.job[w].again = TRUE,
                !.job[w].pc = FirstStatement(pool.job[w].op)]
  /\ UNCHANGED <<backend, ts, op, arg, ret, driver>>

NextWorkers ==
  \E w \in Workers :
    \/ WorkerDropsRows(w)
    \/ WorkerDropsInStep(w)
    \/ WorkerInfersStep(w)
    \/ WorkerReturns(w)
    \/ WorkerRepeats(w)

SpecWorkers == InitWorkers /\ [][NextWorkers]_vars

\* clean_24h_datetime, the same function in both modules
InitClean ==
  /\ backend \in Backends
  /\ ts = Table("frame", 1, FALSE, <<"num">>, <<>>)
  /\ NoCall

SpecClean == InitClean /\ [][Clean24h]_vars

(***************************************************************************)
(* The batch scripts 1_run_after_pwsh_scrip.py (polars, backend "pl") and  *)
(* 1_run_after_pwsh_script_pd.py (pandas, backend "pd").  A folder is its  *)
(* files, each with the plate and the parameter of its last column, and    *)
(* the timestamps of its rows, in seconds.  The log is what the run has    *)
(* written and printed, in order.  An exception ends the run.              *)
(***************************************************************************)
File(plate, param) == [plate |-> plate, param |-> param]

\* the timestamps of a folder: a single one; hourly; daily at midnight;
\* weekly; irregular; half a minute apart
FolderStamps ==
  {<<0>>, <<0, SecondsPerHour>>, <<0, SecondsPerDay>>, <<0, 7 * SecondsPerDay>>,
   <<0, SecondsPerHour, 3 * SecondsPerHour + DefaultMinStep>>,
   <<0, DefaultMinStep \div 2>>}

\* the folders tried: no file; one file; two files of one plate; two files of
\* two parameters; two files of two plates and one parameter
Folders ==
  {[files |-> <<>>, stamps |-> <<>>],
   [files |-> <<File("A", "Flow"), File("A", "Flow")>>, stamps |-> <<0, SecondsPerHour>>],
   [files |-> <<File("A", "Flow"), File("B", "Stage")>>, stamps |-> <<0, SecondsPerHour>>]}
    \cup {[files |-> files, stamps |-> stamps] :
            files \in {<<File("A", "Flow")>>, <<File("A", "Flow"), File("B", "Flow")>>},
            stamps \in FolderStamps}

\* udt_df: the distinct timestamps of the folder, sorted, with the column VV = 0
udt_df(folder) ==
  Table("frame", 1, FALSE, <<"num">>,
        [k \in DOMAIN folder.stamps |->
           [t |-> folder.stamps[k] * TicksPerSecond, v |-> <<Val(0)>>]])

\* step check that lets a step above a day through
StepCheckFails_IrregularOnly(step) == step.n = -1

\* step == -1 or step > 86400, on a step that is not None
StepCheckFails(step) == step.n = -1 \/ step.n > SecondsPerDay

\* fpl.is_ts_daily on a Datetime column
is_ts_daily(t) ==
  /\ ts_step_pl(t, DefaultMinStep) = ReturnStep(Step(SecondsPerDay))
  /\ \A k \in DOMAIN t.rows : t.rows[k].t % (SecondsPerDay * TicksPerSecond) = 0

Event(e, i, what) == [e |-> e, i |-> i, what |-> what]

InitDriver ==
  /\ backend \in Backends
  /\ ts = Table("frame", 1, FALSE, <<"num">>, <<>>)
  /\ op = "init" /\ arg = NoArg /\ ret = Blank
  /\ pool = NoPool
  /\ \E n \in 0..MaxFolders : \E folders \in [1..n -> Folders] :
       driver = [folders |-> folders, i |-> 1, pc |-> "loop", log |-> <<>>,
                 fmt |-> "", raised |-> ""]

\* the folder at hand
Folder == driver.folders[driver.i]

\* continue: on to the next folder
Continue(e, what) ==
  driver' = [driver EXCEPT !.log = Append(@, Event(e, driver.i, what)),
                           !.i = @ + 1, !.pc = "loop"]

\* an exception nobody catches
Crash(exc) == driver' = [driver EXCEPT !.raised = exc, !.pc = "raised"]

\* the head of the loop: the files are read and the long format of the folder
\* is written; a folder without files is passed over
ReadFolder ==
  /\ driver # NoDriver
  /\ driver.pc = "loop"
  /\ driver.i <= Len(driver.folders)
  /\ IF Folder.files = <<>> THEN Continue("no files", "")
     ELSE driver' = [driver EXCEPT !.log = Append(@, Event("long", driver.i, "")),
                                   !.pc = "plates"]
  /\ UNCHANGED <<backend, ts, op, arg, ret, pool>>

\* ts['Plate'].n_unique() < len(csv_paths)
CheckPlates ==
  /\ driver # NoDriver
  /\ driver.pc = "plates"
  /\ IF Cardinality({Folder.files[k].plate : k \in DOMAIN Folder.files}) < Len(Folder.files)
       THEN Continue("skip", "plates")
       ELSE driver' = [driver EXCEPT !.log = Append(@, Event("pass", driver.i, "plates")),
                                     !.pc = "uniform"]
  /\ UNCHANGED <<backend, ts, op, arg, ret, pool>>

\* ts.select(['Unit', 'Parameter']).unique().height > 1; the unit is that of
\* the parameter
CheckUniform ==
  /\ driver # NoDriver
  /\ driver.pc = "uniform"
  /\ IF Cardinality({Folder.files[k].param : k \in DOMAIN Folder.files}) > 1
       THEN Continue("skip", "uniform")
       ELSE driver' = [driver EXCEPT !.log = Append(@, Event("pass", driver.i, "uniform")),
                                     !.pc = "step"]
  /\ UNCHANGED <<backend, ts, op, arg, ret, pool>>

\* step = ts_step(udt_df); if step == -1 or step > 86400.  ts_step may raise;
\* None > 86400 raises TypeError
CheckStep ==
  /\ driver # NoDriver
  /\ driver.pc = "step"
  /\ LET called == ts_step(backend, udt_df(Folder), DefaultMinStep)
     IN IF called.exc # "" THEN Crash(called.exc)
        ELSE IF called.step.none THEN Crash("TypeError")
        ELSE IF StepCheckFails(called.step) THEN Continue("skip", "step")
        ELSE driver' = [driver EXCEPT !.log = Append(@, Event("pass", driver.i, "step")),
                                      !.pc = "wide"]
  /\ UNCHANGED <<backend, ts, op, arg, ret, pool>>

DateFormat == "%Y-%m-%d"
TimeFormat == "%Y-%m-%d %H:%M:%S"

\* the pivot, na_ts_insert and the wide output; the polars script sets fmt
WriteWide ==
  /\ driver # NoDriver
  /\ driver.pc = "wide"
  /\ IF na_ts_insert(backend, udt_df(Folder)).exc # ""
       THEN Crash(na_ts_insert(backend, udt_df(Folder)).exc)
       ELSE driver' = [driver EXCEPT
                         !.log = Append(@, Event("wide", driver.i, "")),
                         !.fmt = IF backend = "pd" THEN @
                                 ELSE IF is_ts_daily(udt_df(Folder)) THEN DateFormat
                                 ELSE TimeFormat,
                         !.i = @ + 1, !.pc = "loop"]
  /\ UNCHANGED <<backend, ts, op, arg, ret, pool>>

\* after the loop: the data-range summary.  polars: strftime(fmt), and fmt is
\* assigned in the wide stage only.  pandas: ts_l['TimeStamp'] of the frame
\* that holds the long format of all the folders, empty when none had a file
WriteSummary ==
  /\ driver # NoDriver
  /\ driver.pc = "loop"
  /\ driver.i > Len(driver.folders)
  /\ IF backend = "pl"
       THEN IF driver.fmt = "" THEN Crash("NameError")
            ELSE driver' = [driver EXCEPT
                              !.log = Append(@, Event("summary", 0, driver.fmt)),
                              !.pc = "end"]
       ELSE IF \A k \in DOMAIN driver.log : driver.log[k].e # "long"
              THEN Crash("KeyError")
            ELSE driver' = [driver EXCEPT
                              !.log = Append(@, Event("summary", 0, TimeFormat)),
                              !.pc = "end"]
  /\ UNCHANGED <<backend, ts, op, arg, ret, pool>>

NextDriver ==
  ReadFolder \/ CheckPlates \/ CheckUniform \/ CheckStep \/ WriteWide \/ WriteSummary

SpecDriver == InitDriver /\ [][NextDriver]_vars

\* the reshaping of the well-typed series
InitReshape == InitSeries /\ NoCall

SpecReshape == InitReshape /\ [][Reshape]_vars

(***************************************************************************)
(* What the claims speak of, stated without the code's operators           *)
(***************************************************************************)
\* a row that carries a value in some column (it is not fully empty)
HasValue(r) == \E j \in DOMAIN r.v : r.v[j].k = "val"
DataRows(rows) == SelectIdx(rows, {ix \in DOMAIN rows : HasValue(rows[ix])})

\* the table types the backend's functions are written for
Recognized == ts.shape = "frame" \/ (backend = "pd" /\ ts.shape = "series")
\* every entry of the key is a date or datetime: the entries of a pandas index
\* (none, when the table has no row), the one temporal column of a polars frame
KeyIsTemporal == ts.ntemporal = 1 \/ (backend = "pd" /\ ts.rows = <<>>)
KeyUnique == \A i, j \in DOMAIN ts.rows : i # j => ts.rows[i].t # ts.rows[j].t
KeySorted == \A i, j \in DOMAIN ts.rows : i < j => ts.rows[i].t <= ts.rows[j].t
DataNumeric == Len(ts.dtypes) >= 1 /\ \A j \in DOMAIN ts.dtypes : ts.dtypes[j] = "num"
ValidSeries == Recognized /\ KeyIsTemporal /\ KeyUnique /\ KeySorted /\ DataNumeric

\* every timestamp of the input is a whole second
WholeSeconds == \A i \in DOMAIN ts.rows : ts.rows[i].t % TicksPerSecond = 0

\* the step na_ts_insert and ts_info work with: ts_step under its default threshold
Inferred == ts_step(backend, ts, DefaultMinStep)
InferredRegular == LET s == Inferred IN s.exc = "" /\ ~s.step.none /\ s.step.n > 0
InferredIrregular == LET s == Inferred IN s.exc = "" /\ ~s.step.none /\ s.step.n = -1
InferredEmpty == LET s == Inferred IN s.exc = "" /\ s.step.none

ValidationMessages ==
  {"ts must be either pandas.Series or pandas.DataFrame!",
   "Wrong dtype in the index",
   "ts.index must be unique!",
   "ts.index must be in chronicle order!",
   "No column exists in the DataFrame ts!",
   "All columns in ts must be numeric!",
   "The Series must contain real numbers!",
   "ts must have one datetime column and the rest of numeric column(s)!",
   "ts must have one datetime column!",
   "The values in the temporal column must be unique!",
   "Column must be sorted in chronicle order!",
   "Apart from the temporal column, the rest column(s) must be numeric!",
   "ts must be a polars.DataFrame!"}
IsValidationError(o) == o.exc = "TypeError" /\ o.msg \in ValidationMessages
IsConfigError(o) ==
  /\ o.exc = "ValueError"
  /\ o.msg \in {"day_starts_at must be an integer in [0, 23]!", "prop must be in [0, 1]!"}

\* rows b carry the data of rows a: same timestamps in the same order, every
\* value unchanged, every missing cell still missing
SameData(a, b) ==
  /\ Len(a) = Len(b)
  /\ \A i \in DOMAIN a :
       /\ i \in DOMAIN b
       /\ a[i].t = b[i].t
       /\ \A j \in DOMAIN a[i].v :
            IF a[i].v[j].k = "val" THEN b[i].v[j] = a[i].v[j] ELSE b[i].v[j].k # "val"

Ascending(rows) == \A i \in DOMAIN rows : i > 1 => rows[i - 1].t < rows[i].t

(***************************************************************************)
(* C1: when ts_step finds the regular step n, the output of na_ts_insert   *)
(* is ascending, starts at the earliest and ends at the latest timestamp   *)
(* of a row that is not fully empty, and adjacent timestamps differ by     *)
(* exactly n seconds.                                                      *)
(***************************************************************************)
OnGrid(rows, n) ==
  /\ rows # <<>>
  /\ Ascending(rows)
  /\ rows[1].t = FirstT(DataRows(ts.rows))
  /\ rows[Len(rows)].t = LastT(DataRows(ts.rows))
  /\ \A i \in DOMAIN rows : i > 1 => rows[i].t - rows[i - 1].t = n * TicksPerSecond

C1_RegularGrid ==
  (op = "na_ts_insert" /\ ValidSeries /\ InferredRegular)
    => (ret.exc = "" /\ OnGrid(ret.rows, Inferred.step.n))

\* C1 on the series whose timestamps are all whole seconds
C1_RegularGridWholeSeconds == WholeSeconds => C1_RegularGrid

(***************************************************************************)
(* C2: na_ts_insert is idempotent: applied to its own output it returns    *)
(* that output, row for row.                                               *)
(***************************************************************************)
C2_Idempotent ==
  op = "na_ts_insert_again" => (ret.exc = "" /\ ret.rows = ts.rows)

(***************************************************************************)
(* C3: on a valid series ts_step drops the fully-empty rows; with at       *)
(* least two rows left and c the smallest gap that is not below the        *)
(* threshold, it returns c if every gap is an exact multiple of c and -1   *)
(* otherwise; the fully-empty rows do not change the result.               *)
(***************************************************************************)
GapsOf(rows) == {rows[i + 1].t - rows[i].t : i \in 1..(Len(rows) - 1)}
CandidateGaps(rows, m) == {g \in GapsOf(rows) : g >= m * TicksPerSecond}

C3_StepInference ==
  (/\ op = "ts_step"
   /\ ValidSeries
   /\ Len(DataRows(ts.rows)) >= 2
   /\ CandidateGaps(DataRows(ts.rows), arg.m) # {})
    => LET c == Min(CandidateGaps(DataRows(ts.rows), arg.m))
       IN /\ ret.exc = ""
          /\ ~ret.step.none
          /\ IF \A g \in GapsOf(DataRows(ts.rows)) : g % c = 0
               THEN ret.step.n * TicksPerSecond = c
               ELSE ret.step.n = -1
          /\ ret = ts_step(backend, [ts EXCEPT !.rows = DataRows(ts.rows)], arg.m)

\* C3 on the series whose timestamps are all whole seconds
C3_StepInferenceWholeSeconds == WholeSeconds => C3_StepInference

(***************************************************************************)
(* C4: with at most one row that is not fully empty, ts_step returns None  *)
(* and na_ts_insert returns exactly those rows, nothing added, every       *)
(* value as it was.                                                        *)
(***************************************************************************)
C4_EmptyOrSingle ==
  (op \in {"ts_step", "na_ts_insert"} /\ ValidSeries /\ Len(DataRows(ts.rows)) <= 1)
    => /\ op = "ts_step" => (ret.exc = "" /\ ret.step = NoStep)
       /\ op = "na_ts_insert" => (ret.exc = "" /\ SameData(DataRows(ts.rows), ret.rows))

\* a single row of data among fully-empty rows has been through na_ts_insert
C4_Witness ==
  /\ op = "na_ts_insert"
  /\ ValidSeries
  /\ Len(DataRows(ts.rows)) = 1
  /\ Len(ts.rows) = MaxRows
  /\ Len(ret.rows) = 1

(***************************************************************************)
(* C5: with a regular step na_ts_insert loses nothing and invents          *)
(* nothing: every input row that is not fully empty is in the output at    *)
(* its timestamp with its values, and every other output row is missing    *)
(* in every column.                                                        *)
(***************************************************************************)
C5_NoLossNoInvention ==
  (op = "na_ts_insert" /\ ValidSeries /\ InferredRegular)
    => /\ ret.exc = ""
       /\ SameData(DataRows(ts.rows), DataRows(ret.rows))
       /\ \A i \in DOMAIN ret.rows :
            (\A k \in DOMAIN ts.rows : HasValue(ts.rows[k]) => ts.rows[k].t # ret.rows[i].t)
              => \A j \in DOMAIN ret.rows[i].v : ret.rows[i].v[j].k # "val"

\* C5 on the series whose timestamps are all whole seconds
C5_NoLossWholeSeconds == WholeSeconds => C5_NoLossNoInvention

(***************************************************************************)
(* C6: when ts_step finds no regular step (irregular, or too few rows),    *)
(* na_ts_insert returns exactly the rows that are not fully empty, in      *)
(* ascending order, and adds none.                                         *)
(***************************************************************************)
C6_IrregularUnchanged ==
  (op = "na_ts_insert" /\ ValidSeries /\ (InferredIrregular \/ InferredEmpty))
    => /\ ret.exc = ""
       /\ Ascending(ret.rows)
       /\ SameData(DataRows(ts.rows), ret.rows)
       /\ {ret.rows[i].t : i \in DOMAIN ret.rows}
            = {ts.rows[i].t : i \in {k \in DOMAIN ts.rows : HasValue(ts.rows[k])}}

\* an irregular series with a missing cell has been through na_ts_insert
C6_Witness ==
  /\ op = "na_ts_insert"
  /\ ValidSeries
  /\ InferredIrregular
  /\ \E i \in DOMAIN ts.rows : \E j \in DOMAIN ts.rows[i].v : ts.rows[i].v[j].k # "val"
  /\ Len(ret.rows) = MaxRows

(***************************************************************************)
(* C7: the validator accepts exactly the recognized tables whose key is    *)
(* temporal, unique and ascending and whose data columns exist and are     *)
(* all numeric; on any other input ts_step, na_ts_insert and ts_info       *)
(* raise and return nothing.                                               *)
(***************************************************************************)
C7_ValidatorAccepts ==
  /\ op = "ts_valid" => (ret.msg = "" <=> ValidSeries)
  /\ (op \in {"ts_step", "ts_info"} /\ ~ValidSeries)
       => (IsValidationError(ret) /\ ret.msg = ts_valid(backend, ts))
  /\ (op = "na_ts_insert" /\ ~ValidSeries)
       => (ret.exc # "" /\ ret.rows = <<>>)

\* a table with a duplicate timestamp and nothing else wrong has been validated
C7_Witness ==
  /\ op = "ts_valid"
  /\ Recognized /\ KeyIsTemporal /\ KeySorted /\ DataNumeric /\ ~KeyUnique
  /\ ret.msg # ""

(***************************************************************************)
(* C8: the validator reports the first failed check in the order shape,    *)
(* temporal key, duplicates, order, data columns, and no two checks share  *)
(* a reason.                                                               *)
(***************************************************************************)
\* the number of the first check of that order the table fails, 0 if none
FirstFailedCheck ==
  IF ~Recognized THEN 1
  ELSE IF ~KeyIsTemporal THEN 2
  ELSE IF ~KeyUnique THEN 3
  ELSE IF ~KeySorted THEN 4
  ELSE IF ~DataNumeric THEN 5
  ELSE 0

\* the checks a reason speaks of
ChecksOf(msg) ==
  IF msg = "" THEN {0}
  ELSE IF msg \in {"ts must be either pandas.Series or pandas.DataFrame!",
                   "ts must be a polars.DataFrame!"} THEN {1}
  ELSE IF msg \in {"Wrong dtype in the index", "ts must have one datetime column!"}
    THEN {2}
  ELSE IF msg \in {"ts.index must be unique!",
                   "The values in the temporal column must be unique!"} THEN {3}
  ELSE IF msg \in {"ts.index must be in chronicle order!",
                   "Column must be sorted in chronicle order!"} THEN {4}
  ELSE IF msg = "ts must have one datetime column and the rest of numeric column(s)!"
    THEN {2, 5}
  ELSE {5}

C8_CheckOrder ==
  op = "ts_valid"
    => /\ FirstFailedCheck \in ChecksOf(ret.msg)
       /\ Cardinality(ChecksOf(ret.msg)) = 1

\* C8 for the pandas validator alone
C8_CheckOrderPandas == backend = "pd" => C8_CheckOrder

(***************************************************************************)
(* C9: a table with duplicate or unsorted timestamps, or with a column     *)
(* that is not numeric, makes every core operation fail with the           *)
(* validation error, and nothing computed is returned.                     *)
(***************************************************************************)
GoodConfig ==
  /\ arg.day_starts_at.isint
  /\ arg.day_starts_at.n \in 0..MaxDayStart
  /\ arg.prop.num >= 0
  /\ arg.prop.num <= arg.prop.den

StructuralViolation ==
  /\ Recognized
  /\ KeyIsTemporal
  /\ ~KeyUnique \/ ~KeySorted \/ ~DataNumeric

C9_ViolationSurfaced ==
  (/\ op \in {"ts_step", "na_ts_insert", "ts_info", "hourly_2_daily"}
   /\ op = "hourly_2_daily" => GoodConfig
   /\ StructuralViolation)
    => /\ IsValidationError(ret)
       /\ ret.msg = ts_valid(backend, ts)
       /\ ret.rows = <<>>
       /\ ret.info = <<>>

\* C9 for ts_step, na_ts_insert and ts_info
C9_ViolationSurfacedByValidatingOps ==
  op # "hourly_2_daily" => C9_ViolationSurfaced

(***************************************************************************)
(* C10: hourly_2_daily raises the configuration error exactly when         *)
(* day_starts_at is not an int in [0, 23] or prop is outside [0, 1],       *)
(* whatever table it is given.                                             *)
(***************************************************************************)
C10_ConfigChecked ==
  op = "hourly_2_daily"
    => /\ IsConfigError(ret) <=> ~GoodConfig
       /\ ~GoodConfig => (ret.rows = <<>> /\ ret.label = "")

\* a bad configuration met an object that is no table, and one in range at
\* both ends met a table that hourly_2_daily could aggregate
C10_Witness ==
  /\ op = "hourly_2_daily"
  /\ \/ (~GoodConfig /\ ~Recognized /\ IsConfigError(ret))
     \/ (/\ arg.day_starts_at.n = MaxDayStart
         /\ arg.prop.num = arg.prop.den
         /\ ValidSeries
         /\ ret.exc = "")

(***************************************************************************)
(* C14: ts_info returns nothing when the step is None; otherwise one       *)
(* record per data column, in column order, under the column's name; a     *)
(* column without a value has no start, end or length; a column with       *)
(* values starts and ends at its earliest and latest value.                *)
(***************************************************************************)
\* the timestamps at which column j of the input holds a value
Observed(j) == {ts.rows[i].t : i \in {k \in DOMAIN ts.rows : ts.rows[k].v[j].k = "val"}}

C14_InfoRecords ==
  (op = "ts_info" /\ ValidSeries)
    => /\ InferredEmpty => ret = ReturnNone
       /\ (InferredRegular \/ InferredIrregular)
            => /\ ret.exc = ""
               /\ Len(ret.info) = Len(ts.dtypes)
               /\ \A j \in DOMAIN ts.dtypes :
                    /\ j \in DOMAIN ret.info
                    /\ ret.info[j].site = j
                    /\ IF Observed(j) = {}
                         THEN /\ ret.info[j].start.k # "val"
                              /\ ret.info[j].end.k # "val"
                              /\ ret.info[j].length.k # "val"
                         ELSE /\ ret.info[j].start = Val(Min(Observed(j)))
                              /\ ret.info[j].end = Val(Max(Observed(j)))
                              /\ ret.info[j].length.k = "val"

\* a table of two columns, the first without any value, has been reported
C14_Witness ==
  /\ op = "ts_info"
  /\ ValidSeries
  /\ Len(ts.dtypes) = 2
  /\ Observed(1) = {}
  /\ Len(ret.info) = 2
  /\ ret.info[2].start.k = "val"

(***************************************************************************)
(* C15: the report of ts_info has the completeness column exactly when     *)
(* the step is regular, and never the count of observations.               *)
(***************************************************************************)
C15_CompletenessIffRegular ==
  (op = "ts_info" /\ ValidSeries /\ (InferredRegular \/ InferredIrregular))
    => /\ ret.exc = ""
       /\ "Completion_%" \in Range(ret.schema) <=> InferredRegular
       /\ InferredIrregular => \A j \in DOMAIN ret.info : ret.info[j].completion.k # "val"
       /\ "n" \notin Range(ret.schema)
       /\ "N" \notin Range(ret.schema)

\* an irregular series has been reported, without the completeness column
C15_Witness ==
  /\ op = "ts_info"
  /\ ValidSeries
  /\ InferredIrregular
  /\ ret.info # <<>>
  /\ "Completion_%" \notin Range(ret.schema)

(***************************************************************************)
(* C16: for a regular series with step n, the completeness of a column     *)
(* with values is count * n / (span + added) * 100 and its reported        *)
(* length is span + added, span being latest - earliest value of the       *)
(* column.  The claim takes half a step as added; the code adds one step.  *)
(***************************************************************************)
\* every gap between rows that are not fully empty is a multiple of the step
RegularWithStep ==
  /\ InferredRegular
  /\ \A g \in GapsOf(DataRows(ts.rows)) : g % (Inferred.step.n * TicksPerSecond) = 0

SpanOf(j) == Max(Observed(j)) - Min(Observed(j))

\* the cell holds the number num / den
CellIs(c, num, den) == c.k = "val" /\ c.x * den = num * c.d

\* record j as the claim has it, with twice_added / 2 ticks added to the span
AdjustedBy(j, twice_added) ==
  /\ CellIs(ret.info[j].completion,
            200 * Cardinality(Observed(j)) * Inferred.step.n * TicksPerSecond,
            2 * SpanOf(j) + twice_added)
  /\ CellIs(ret.info[j].length, 2 * SpanOf(j) + twice_added, 2 * TicksPerSecond)

\* C16 as stated: half a step is added
C16_HalfStepAdded ==
  (op = "ts_info" /\ ValidSeries /\ RegularWithStep)
    => \A j \in DOMAIN ts.dtypes :
         Observed(j) # {}
           => (j \in DOMAIN ret.info /\ AdjustedBy(j, Inferred.step.n * TicksPerSecond))

\* C16 as amended: one whole step is added
C16_WholeStepAdded ==
  (op = "ts_info" /\ ValidSeries /\ RegularWithStep)
    => \A j \in DOMAIN ts.dtypes :
         Observed(j) # {}
           => (j \in DOMAIN ret.info /\ AdjustedBy(j, 2 * Inferred.step.n * TicksPerSecond))

\* a regular series with a hole has been reported: a completeness below 100
C16_Witness ==
  /\ op = "ts_info"
  /\ ValidSeries
  /\ RegularWithStep
  /\ \E j \in DOMAIN ret.info :
       /\ Observed(j) # {}
       /\ SpanOf(j) > Cardinality(Observed(j)) * Inferred.step.n * TicksPerSecond
       /\ ret.info[j].completion.k = "val"

(***************************************************************************)
(* C17: in the report of a regular series, a column without any value has  *)
(* no start, end or length and a completeness of 0 per cent.               *)
(***************************************************************************)
C17_EmptyColumnZero ==
  (op = "ts_info" /\ ValidSeries /\ InferredRegular)
    => \A j \in DOMAIN ts.dtypes :
         Observed(j) = {}
           => /\ j \in DOMAIN ret.info
              /\ ret.info[j].start.k # "val"
              /\ ret.info[j].end.k # "val"
              /\ ret.info[j].length.k # "val"
              /\ CellIs(ret.info[j].completion, 0, 1)

(***************************************************************************)
(* C19: with two or more rows that are not fully empty and every gap       *)
(* below the threshold, ts_step fails at run time: it returns no step,     *)
(* and na_ts_insert and ts_info fail with it.                              *)
(***************************************************************************)
\* the threshold of the call: the argument of ts_step, the default of the others
ThresholdOfCall == IF op = "ts_step" THEN arg.m ELSE DefaultMinStep

NoCandidate ==
  /\ ValidSeries
  /\ Len(DataRows(ts.rows)) >= 2
  /\ CandidateGaps(DataRows(ts.rows), ThresholdOfCall) = {}

C19_NoCandidateFails ==
  (op \in {"ts_step", "na_ts_insert", "ts_info"} /\ NoCandidate)
    => /\ ret.exc # ""
       /\ ~IsValidationError(ret)
       /\ ret.msg = "minimum of an empty set"
       /\ ret.rows = <<>>
       /\ ret.info = <<>>

\* three rows half a minute apart have been through na_ts_insert
C19_Witness ==
  /\ op = "na_ts_insert"
  /\ NoCandidate
  /\ Len(DataRows(ts.rows)) = MaxRows
  /\ ret.exc # ""

(***************************************************************************)
(* C20: na_ts_insert drops the fully-empty rows first.  The claim: no row  *)
(* of the output has the timestamp of a fully-empty input row.  The code:  *)
(* such a timestamp comes back only as a row of the regular grid, missing  *)
(* in every column, strictly between the first and last row with a value.  *)
(***************************************************************************)
\* output row k sits at the timestamp of the fully-empty input row i
Reinserted(i, k) ==
  /\ i \in DOMAIN ts.rows
  /\ k \in DOMAIN ret.rows
  /\ ~HasValue(ts.rows[i])
  /\ ret.rows[k].t = ts.rows[i].t

\* C20 as stated
C20_NeverReinserted ==
  (op = "na_ts_insert" /\ ValidSeries /\ ret.exc = "")
    => \A i \in DOMAIN ts.rows : \A k \in DOMAIN ret.rows : ~Reinserted(i, k)

\* the marker na_ts_insert pads with
PadMarker == IF backend = "pd" THEN NaN ELSE Null

\* C20 as amended
C20_ReinsertedOnlyAsGridRow ==
  (op = "na_ts_insert" /\ ValidSeries /\ ret.exc = "")
    => \A i \in DOMAIN ts.rows : \A k \in DOMAIN ret.rows :
         Reinserted(i, k)
           => /\ InferredRegular
              /\ \A j \in DOMAIN ret.rows[k].v : ret.rows[k].v[j] = PadMarker
              /\ FirstT(DataRows(ts.rows)) < ret.rows[k].t
              /\ ret.rows[k].t < LastT(DataRows(ts.rows))
              /\ (ret.rows[k].t - FirstT(DataRows(ts.rows)))
                   % (Inferred.step.n * TicksPerSecond) = 0

\* a fully-empty row on the grid has come back as a row of the grid
C20_Witness ==
  /\ op = "na_ts_insert"
  /\ ValidSeries
  /\ \E i \in DOMAIN ts.rows, k \in DOMAIN ret.rows : Reinserted(i, k)
  /\ Len(ret.rows) = MaxSlots

(***************************************************************************)
(* hourly_2_daily: what C11, C12 and C13 speak of                          *)
(***************************************************************************)
\* a valid table of one numeric column
ValidHourly == ValidSeries /\ Len(ts.dtypes) = 1

HourTicks == SecondsPerHour * TicksPerSecond
WholeHours == \A i \in DOMAIN ts.rows : ts.rows[i].t % HourTicks = 0

\* the rows of the input that hold a value
Observations == {i \in DOMAIN ts.rows : ts.rows[i].v[1].k = "val"}

\* the day (0 is the day of tick 0) of t minus (1 + day_starts_at) hours
ShiftedDay(t) == (t - (1 + arg.day_starts_at.n) * HourTicks) \div DayTicks
ShiftBucket(D) == {i \in Observations : ShiftedDay(ts.rows[i].t) = D}

\* the observations with D + H:00 < t <= D + 1 day + H:00
IntervalBucket(D) ==
  {i \in Observations :
     /\ D * DayTicks + arg.day_starts_at.n * HourTicks < ts.rows[i].t
     /\ ts.rows[i].t <= (D + 1) * DayTicks + arg.day_starts_at.n * HourTicks}

SumOfRows(I) ==
  SumSeq([k \in 1..Cardinality(I) |-> SelectIdx(ts.rows, I)[k].v[1].x])

\* the cell is agg over the values of the rows I
AggregateOf(c, I) ==
  /\ I # {}
  /\ IF arg.agg = "mean" THEN CellIs(c, SumOfRows(I), Cardinality(I))
     ELSE CellIs(c, SumOfRows(I), 1)

\* the output row k of a day: the day, and whether it carries a value
DayOfRow(k) == ret.rows[k].t \div DayTicks
ValueRows == {k \in DOMAIN ret.rows : ret.rows[k].v[1].k = "val"}
KeptDays == {DayOfRow(k) : k \in ValueRows}

Aggregated == op = "hourly_2_daily" /\ ValidHourly /\ GoodConfig /\ ret.exc = ""

(***************************************************************************)
(* C11: the value of an output day D is the aggregate of the observations  *)
(* whose timestamp minus (1 + day_starts_at) hours falls on D; the claim   *)
(* takes these to be the observations with D + H:00 < t <= D + 1 day +     *)
(* H:00, which is so when every timestamp is a whole hour.                 *)
(***************************************************************************)
BucketsByShift ==
  \A k \in ValueRows :
    /\ ret.rows[k].t % DayTicks = 0
    /\ AggregateOf(ret.rows[k].v[1], ShiftBucket(DayOfRow(k)))

BucketsByInterval ==
  \A k \in ValueRows : AggregateOf(ret.rows[k].v[1], IntervalBucket(DayOfRow(k)))

\* C11 as stated
C11_BucketInterval == Aggregated => (BucketsByShift /\ BucketsByInterval)

\* C11 as amended
C11_BucketIntervalOnWholeHours ==
  Aggregated => (BucketsByShift /\ (WholeHours => BucketsByInterval))

\* with day_starts_at = 9, the values of 10:00 of day 0 and 09:00 of day 1
\* have gone into the one bucket of day 0
C11_Witness ==
  /\ Aggregated
  /\ WholeHours
  /\ arg.day_starts_at.n = 9
  /\ Cardinality(Observations) = 2
  /\ Cardinality(ValueRows) = 1
  /\ \E k \in ValueRows :
       /\ DayOfRow(k) = 0
       /\ Cardinality(ShiftBucket(0)) = 2
       /\ \E i \in ShiftBucket(0) : ts.rows[i].t = DayTicks + 9 * HourTicks

(***************************************************************************)
(* C12: a day gets a value exactly when it has an observation and its      *)
(* observations / 24 reach prop; the value is agg over its observations,   *)
(* missing cells left out.                                                 *)
(***************************************************************************)
\* the days the timestamps of the model can fall on
DaysTried == (0 - 1)..4

Complete(D) ==
  /\ ShiftBucket(D) # {}
  /\ Cardinality(ShiftBucket(D)) * arg.prop.den >= arg.prop.num * HoursPerDay

C12_KeptIffComplete ==
  (op = "hourly_2_daily" /\ ValidHourly /\ GoodConfig)
    => /\ ret.exc = ""
       /\ KeptDays \subseteq DaysTried
       /\ \A D \in DaysTried : D \in KeptDays <=> Complete(D)
       /\ \A k \in ValueRows : AggregateOf(ret.rows[k].v[1], ShiftBucket(DayOfRow(k)))

\* C12 for the polars backend
C12_KeptIffCompletePolars == backend = "pl" => C12_KeptIffComplete

(***************************************************************************)
(* C13: the output has one row for every day from the first to the last    *)
(* day that got a value; the days between that got none are rows with a    *)
(* missing value.                                                          *)
(***************************************************************************)
C13_DaysRestored ==
  (Aggregated /\ KeptDays # {})
    => /\ \A D \in Min(KeptDays)..Max(KeptDays) :
            \E k \in DOMAIN ret.rows : DayOfRow(k) = D /\ ret.rows[k].t = D * DayTicks
       /\ Len(ret.rows) = Max(KeptDays) - Min(KeptDays) + 1

GridSteps == {DefaultMinStep, 2 * DefaultMinStep}

Abs(x) == IF x < 0 THEN 0 - x ELSE x

\* the rows with a value, but for the e-th of them
GridRows(e) ==
  LET D == DataRows(ts.rows) IN SelectIdx(D, DOMAIN D \ {e})

\* the ticks between the e-th row with a value and the nearest other one
NearestTo(e) ==
  LET D == DataRows(ts.rows)
  IN Min({Abs(D[e].t - D[i].t) : i \in DOMAIN D \ {e}})

\* the rows with a value are a grid of step n and the extra sample e, which is
\* less than the threshold of the call away from a sample of the grid
NoisyGrid(n, e) ==
  /\ e \in DOMAIN DataRows(ts.rows)
  /\ n >= arg.m
  /\ Len(GridRows(e)) >= 2
  /\ \A g \in GapsOf(GridRows(e)) : g = n * TicksPerSecond
  /\ NearestTo(e) < arg.m * TicksPerSecond

\* C21 as stated: the noise is rejected
C21_NoiseRejected ==
  (op = "ts_step" /\ ValidSeries)
    => \A n \in GridSteps : \A e \in DOMAIN ts.rows :
         NoisyGrid(n, e) => ret = ReturnStep(Step(n))

\* C21 as amended: an extra sample a second or more from the grid makes the
\* series irregular, or makes the call fail when no gap reaches the threshold
C21_NoiseIsIrregular ==
  (op = "ts_step" /\ ValidSeries)
    => \A n \in GridSteps : \A e \in DOMAIN ts.rows :
         (NoisyGrid(n, e) /\ NearestTo(e) >= TicksPerSecond)
           => IF CandidateGaps(DataRows(ts.rows), arg.m) = {}
                THEN ret.exc # "" /\ ~IsValidationError(ret)
                ELSE ret = ReturnStep(Irregular)

\* a grid of the default step and a sample half a minute after its last one
\* have been through ts_step
C21_Witness ==
  /\ op = "ts_step"
  /\ ValidSeries
  /\ Len(DataRows(ts.rows)) >= 3
  /\ NoisyGrid(DefaultMinStep, Len(DataRows(ts.rows)))
  /\ NearestTo(Len(DataRows(ts.rows))) >= TicksPerSecond
  /\ ret = ReturnStep(Irregular)

(***************************************************************************)
(* C22: wide to long, missing values dropped, and back to wide.  Every     *)
(* value is back at its timestamp and column.  The claim: the result       *)
(* differs from the original only by the fully-missing rows.  The code: a  *)
(* column without any value is gone as well.                               *)
(***************************************************************************)
\* the columns of the input that hold a value, in column order
ColumnsWithValue ==
  SelectIdx([j \in DOMAIN ts.dtypes |-> j], {j \in DOMAIN ts.dtypes : Observed(j) # {}})

\* row i of the result is the i-th row of rows, read at the columns cols:
\* values as they were, missing cells missing
RowsBack(rows, cols) ==
  /\ Len(ret.rows) = Len(rows)
  /\ \A i \in DOMAIN rows :
       /\ ret.rows[i].t = rows[i].t
       /\ Len(ret.rows[i].v) = Len(cols)
       /\ \A p \in DOMAIN cols :
            IF rows[i].v[cols[p]].k = "val"
              THEN ret.rows[i].v[p] = rows[i].v[cols[p]]
              ELSE ret.rows[i].v[p].k # "val"

\* C22 as stated: all the columns, the rows that are not fully missing
C22_RoundTrip ==
  (op = "reshape" /\ ValidSeries)
    => /\ ret.exc = ""
       /\ ret.schema = [j \in DOMAIN ts.dtypes |-> j]
       /\ RowsBack(DataRows(ts.rows), ret.schema)

\* C22 as amended: the columns that hold a value, the rows that are not fully
\* missing
C22_RoundTripOfColumnsWithValue ==
  (op = "reshape" /\ ValidSeries)
    => /\ ret.exc = ""
       /\ ret.schema = ColumnsWithValue
       /\ RowsBack(DataRows(ts.rows), ret.schema)

\* a table of two columns, the first without a value, with a fully-missing
\* row and a row with a value, has been reshaped
C22_Witness ==
  /\ op = "reshape"
  /\ Len(ts.dtypes) = 2
  /\ ColumnsWithValue = <<2>>
  /\ Len(ts.rows) = MaxRows
  /\ Len(ret.rows) = MaxRows - 1

(***************************************************************************)
(* C23: with workers interleaved in any order, the result of every call    *)
(* is the result of the same call made alone, and a call repeated on the   *)
(* same table returns what it returned the first time.                     *)
(***************************************************************************)
\* the call of worker w, made alone
Alone(w) ==
  IF pool.job[w].op = "ts_step" THEN ts_step(backend, pool.job[w].ts, DefaultMinStep)
  ELSE na_ts_insert(backend, pool.job[w].ts)

FieldAt(s, from, to) == int(SubSeq(s, from, to))
PassedDate == <<FieldAt(arg.text, 1, 4), FieldAt(arg.text, 6, 7), FieldAt(arg.text, 9, 10)>>
PassedHour == FieldAt(arg.text, 12, 13)

\* the day after each of the dates, from the calendar
DayAfter(date) ==
  IF date = <<2020, 2, 28>> THEN <<2020, 2, 29>>
  ELSE IF date = <<2020, 2, 29>> THEN <<2020, 3, 1>>
  ELSE IF date = <<2021, 2, 28>> THEN <<2021, 3, 1>>
  ELSE IF date = <<1900, 2, 28>> THEN <<1900, 3, 1>>
  ELSE IF date = <<2000, 2, 28>> THEN <<2000, 2, 29>>
  ELSE IF date = <<2021, 4, 30>> THEN <<2021, 5, 1>>
  ELSE IF date = <<2020, 12, 31>> THEN <<2021, 1, 1>>
  ELSE IF date = <<999, 1, 1>> THEN <<999, 1, 2>>
  ELSE IF date = <<9999, 12, 31>> THEN <<9999, 12, 31>>
  ELSE <<2021, 1, 16>>

\* C24 as stated
C24_Clean24h ==
  (op = "clean_24h_datetime" /\ arg.isstr /\ PassedHour <= 24)
    => /\ ret.exc = ""
       /\ Len(ret.text) = StampLength
       /\ IF PassedHour = 24
            THEN ret.text = Stamp(DayAfter(PassedDate), 0, FieldAt(arg.text, 15, 16),
                                  FieldAt(arg.text, 18, 19))
            ELSE ret.text = SubSeq(arg.text, 1, StampLength)
       /\ FieldAt(ret.text, 12, 13) \in 0..23

\* C24 on the years the calendar writes with four digits, short of the last
\* day of year 9999
C24_Clean24hFourDigitYears ==
  (op = "clean_24h_datetime" /\ PassedDate[1] >= 1000 /\ PassedDate # <<9999, 12, 31>>)
    => C24_Clean24h

(***************************************************************************)
(* C25: the pandas and the polars functions agree: on every table they     *)
(* both fail or both return, and on a table both validators accept they    *)
(* return the same step, the same rows (timestamps, values, missing        *)
(* cells) and the same report.                                             *)
(***************************************************************************)
\* two cells alike: both missing, or the same number
CellAlike(c, e) ==
  IF c.k # "val" \/ e.k # "val" THEN c.k # "val" /\ e.k # "val"
  ELSE c.x * e.d = e.x * c.d

RowsAlike(a, b) ==
  /\ Len(a) = Len(b)
  /\ \A i \in DOMAIN a :
       /\ a[i].t = b[i].t
       /\ Len(a[i].v) = Len(b[i].v)
       /\ \A j \in DOMAIN a[i].v : CellAlike(a[i].v[j], b[i].v[j])

InfoAlike(a, b) ==
  /\ Len(a) = Len(b)
  /\ \A j \in DOMAIN a :
       /\ a[j].site = b[j].site
       /\ CellAlike(a[j].start, b[j].start)
       /\ CellAlike(a[j].end, b[j].end)
       /\ CellAlike(a[j].length, b[j].length)
       /\ CellAlike(a[j].completion, b[j].completion)

\* two outcomes alike: both raised, or both returned the same
Alike(a, b) ==
  IF a.exc # "" \/ b.exc # "" THEN a.exc # "" /\ b.exc # ""
  ELSE /\ a.step = b.step
       /\ RowsAlike(a.rows, b.rows)
       /\ InfoAlike(a.info, b.info)
       /\ a.schema = b.schema

\* the call of the state, made with backend b on table t: what it can return
OutcomesOn(b, t) ==
  IF op = "ts_step" THEN {ts_step(b, t, arg.m)}
  ELSE IF op = "na_ts_insert" THEN {na_ts_insert(b, t)}
  ELSE IF op = "ts_info" THEN {ts_info(b, t)}
  ELSE hourly_2_daily_outcomes(b, t, arg.day_starts_at, arg.agg, arg.prop)

OutcomesWith(b) == OutcomesOn(b, ts)

C25_BackendsAgree ==
  op \in {"ts_step", "na_ts_insert", "ts_info", "hourly_2_daily"}
    => \A a \in OutcomesWith("pl") : \E e \in OutcomesWith("pd") : Alike(a, e)

(***************************************************************************)
(* C26: in the polars backend a NaN cell counts as a null cell: with any   *)
(* NaN of the table turned into null, or any null into NaN, ts_step,       *)
(* na_ts_insert, hourly_2_daily and ts_info return what they returned.     *)
(***************************************************************************)
\* the table with every missing cell written as marker
WithMarker(t, marker) ==
  [t EXCEPT !.rows = [i \in DOMAIN t.rows |->
     [t.rows[i] EXCEPT !.v = [j \in DOMAIN t.rows[i].v |->
        IF t.rows[i].v[j].k = "val" THEN t.rows[i].v[j] ELSE marker]]]]

\* the table with the missing cell of row i, column j written the other way
OtherMarkerAt(t, i, j) ==
  [t EXCEPT !.rows[i].v[j] =
     IF @.k = "null" THEN NaN ELSE IF @.k = "nan" THEN Null ELSE @]

\* the tables that differ from the input in the marker of missing cells
Remarked ==
  {WithMarker(ts, Null), WithMarker(ts, NaN)}
    \cup {OtherMarkerAt(ts, i, j) : i \in DOMAIN ts.rows, j \in DOMAIN ts.dtypes}

C26_NaNLikeNull ==
  (backend = "pl" /\ op \in {"ts_step", "na_ts_insert", "ts_info", "hourly_2_daily"})
    => \A t \in Remarked : OutcomesOn("pl", t) = {ret}

\* a table with a NaN and a value has been through hourly_2_daily, which
\* returned a row
C26_Witness ==
  /\ backend = "pl"
  /\ op = "hourly_2_daily"
  /\ \E i \in DOMAIN ts.rows : ts.rows[i].v[1].k = "nan"
  /\ ret.exc = ""
  /\ ret.rows # <<>>

(***************************************************************************)
(* C27: a step n returned by ts_step is positive, not below the threshold  *)
(* and equal to the smallest gap between the rows that are not fully       *)
(* empty; when the smallest gap does not divide another gap the series is  *)
(* irregular, whatever the gaps have in common.                            *)
(***************************************************************************)
ReturnedStep == op = "ts_step" /\ ret.exc = "" /\ ~ret.step.none /\ ret.step.n # -1

C27_StepIsSmallestGap ==
  /\ ReturnedStep
       => /\ ret.step.n >= arg.m
          /\ ret.step.n > 0
          /\ ret.step.n * TicksPerSecond = Min(GapsOf(DataRows(ts.rows)))
  /\ (/\ op = "ts_step"
      /\ ValidSeries
      /\ Len(DataRows(ts.rows)) >= 2
      /\ Min(GapsOf(DataRows(ts.rows))) >= arg.m * TicksPerSecond
      /\ \E g \in GapsOf(DataRows(ts.rows)) : g % Min(GapsOf(DataRows(ts.rows))) # 0)
       => ret = ReturnStep(Irregular)

(***************************************************************************)
(* C28: in the report of a regular series every column with a value has a  *)
(* completeness above 0 and at most 100, and of exactly 100 if and only if *)
(* it has a value at every timestamp of the grid from its own first to its *)
(* own last value.                                                         *)
(***************************************************************************)
\* the timestamps of the grid of step n from the first to the last value of
\* column j
GridOf(j, n) ==
  {Min(Observed(j)) + k * n * TicksPerSecond :
     k \in 0..(SpanOf(j) \div (n * TicksPerSecond))}

\* the completeness of record j lies in (0, 100], at 100 exactly for full
CompletenessOf(j, full) ==
  LET c == ret.info[j].completion
  IN /\ c.k = "val"
     /\ c.d > 0
     /\ c.x > 0
     /\ c.x <= 100 * c.d
     /\ c.x = 100 * c.d <=> full

C28_CompletenessBounds ==
  (op = "ts_info" /\ ValidSeries /\ InferredRegular)
    => \A j \in DOMAIN ts.dtypes :
         Observed(j) # {}
           => /\ j \in DOMAIN ret.info
              /\ CompletenessOf(j, GridOf(j, Inferred.step.n) \subseteq Observed(j))

\* C28 on the series whose gaps are all multiples of the step
C28_CompletenessBoundsOnGrid == RegularWithStep => C28_CompletenessBounds


(***************************************************************************)
(* C29, C30: the batch scripts                                             *)
(***************************************************************************)
PlatesDistinct(folder) ==
  \A j, k \in DOMAIN folder.files :
    j # k => folder.files[j].plate # folder.files[k].plate

UnitAndParameterUniform(folder) ==
  \A j, k \in DOMAIN folder.files : folder.files[j].param = folder.files[k].param

\* the step of the distinct timestamps is regular and at most a day
StepWithinDay(folder) ==
  LET called == ts_step(backend, udt_df(folder), DefaultMinStep)
  IN /\ called.exc = ""
     /\ ~called.step.none
     /\ called.step.n \in 1..SecondsPerDay

\* what the run has written and printed about folder i
EventsOf(i) == SelectSeq(driver.log, LAMBDA ev : ev.i = i)

EventNames(i) == [k \in DOMAIN EventsOf(i) |-> <<EventsOf(i)[k].e, EventsOf(i)[k].what>>]

IsPrefix(s, t) == Len(s) <= Len(t) /\ SubSeq(t, 1, Len(s)) = s

\* the events of a folder that passes the three checks, in order
PassingRun ==
  << <<"long", "">>, <<"pass", "plates">>, <<"pass", "uniform">>,
     <<"pass", "step">>, <<"wide", "">> >>

\* the events of a folder whose first failing check is the n-th
SkippedRun(n) ==
  Append(SubSeq(PassingRun, 1, n), <<"skip", PassingRun[n + 1][2]>>)

\* the first check the folder fails: 1, 2, 3, or 0 if it passes all three
FirstFailing(folder) ==
  IF ~PlatesDistinct(folder) THEN 1
  ELSE IF ~UnitAndParameterUniform(folder) THEN 2
  ELSE IF ~StepWithinDay(folder) THEN 3
  ELSE 0

C30_RunsToCompletion ==
  driver # NoDriver =>
    /\ driver.raised = ""
    /\ driver.pc = "end" =>
         /\ \A i \in DOMAIN driver.folders :
              \E k \in DOMAIN driver.log :
                driver.log[k].i = i /\ driver.log[k].e \in {"wide", "skip", "no files"}
         /\ Cardinality({k \in DOMAIN driver.log : driver.log[k].e = "summary"}) = 1
         /\ driver.log[Len(driver.log)] = Event("summary", 0, TimeFormat)

====
